---- MODULE Spec2Model ----
(***************************************************************************)
(* Technology Matrix worker (Cloudflare Worker + restdb.io).               *)
(*                                                                         *)
(* The model follows the newest revision of the worker                     *)
(* (src/unnamed/part_001): the fetch handler, handleApi, handleItems,      *)
(* handleCustomers, restdbFetch and computeTIME.  The external document    *)
(* store is the environment; it is modelled from its contract.             *)
(*                                                                         *)
(* Conventions                                                             *)
(*  - a JavaScript string is a sequence of one-character strings;          *)
(*  - a JavaScript number is a record [nan, i, fd]: NaN, or the            *)
(*    non-negative decimal with integer part i and fraction digits fd;     *)
(*  - a JavaScript/JSON value is a record [t, n, s] tagged by t.           *)
(***************************************************************************)
EXTENDS Integers, Sequences, FiniteSets, TLC

VARIABLES
    env,      \* the worker's configuration (read-only after start)
    store,    \* the documents of the restdb collection, in insertion order
    nextId,   \* number of identifiers the store has handed out
    clock,    \* the worker's wall clock (new Date())
    conn,     \* per connection: the request being handled and its outcome
    hist,     \* ghost: identifiers created / deleted through the API
    probe,    \* computeTIME applied to a pair of ratings, by the worker and by
              \* the page (the ratings of the form, and the preview shown)
    page      \* the page in the browser: its fields, its table, the requests
              \* its script awaits

vars == <<env, store, nextId, clock, conn, hist, probe, page>>

(***************************************************************************)
(* Strings                                                                 *)
(***************************************************************************)
Empty == <<>>

\* ECMAScript WhiteSpace / LineTerminator characters of the modelled alphabet.
WhiteSpace == {" ", "\t"}

Digits == <<"0", "1", "2", "3", "4", "5", "6", "7", "8", "9">>

IsDigit(ch) == \E k \in 1..10 : Digits[k] = ch

DigitVal(ch) == (CHOOSE k \in 1..10 : Digits[k] = ch) - 1

RECURSIVE TrimStart(_)
TrimStart(s) ==
    IF s # Empty /\ Head(s) \in WhiteSpace THEN TrimStart(Tail(s)) ELSE s

RECURSIVE TrimEnd(_)
TrimEnd(s) ==
    IF s # Empty /\ s[Len(s)] \in WhiteSpace
    THEN TrimEnd(SubSeq(s, 1, Len(s) - 1))
    ELSE s

\* String.prototype.trim
Trim(s) == TrimEnd(TrimStart(s))

\* String.prototype.startsWith
StartsWith(s, p) == Len(s) >= Len(p) /\ SubSeq(s, 1, Len(p)) = p

(***************************************************************************)
(* Numbers                                                                 *)
(***************************************************************************)
NaN == [nan |-> TRUE, i |-> 0, fd |-> Empty]

Int2Num(k) == [nan |-> FALSE, i |-> k, fd |-> Empty]

Dec(k, frac) == [nan |-> FALSE, i |-> k, fd |-> frac]

\* x >= k and x <= k for a JavaScript number x and an integer k; every
\* comparison with NaN is false.
NumGE(x, k) == ~x.nan /\ x.i >= k

NumLE(x, k) == ~x.nan /\ (x.i < k \/ (x.i = k /\ x.fd = Empty))

IsInteger(x) == ~x.nan /\ x.fd = Empty

RECURSIVE DecVal(_)
DecVal(ds) ==
    IF ds = Empty THEN 0
    ELSE 10 * DecVal(SubSeq(ds, 1, Len(ds) - 1)) + DigitVal(ds[Len(ds)])

RECURSIVE StripZeros(_)
StripZeros(ds) ==
    IF ds # Empty /\ ds[Len(ds)] = "0"
    THEN StripZeros(SubSeq(ds, 1, Len(ds) - 1))
    ELSE ds

AllDigits(ds) == \A k \in 1..Len(ds) : IsDigit(ds[k])

\* StringToNumber (ECMAScript 7.1.4.1) on the modelled alphabet: white space is
\* trimmed, the empty string is 0, an unsigned decimal literal is its value and
\* anything else is NaN.
StringToNumber(str) ==
    LET s    == Trim(str)
        dots == {k \in 1..Len(s) : s[k] = "."}
    IN  IF s = Empty THEN Int2Num(0)
        ELSE IF dots = {} THEN
            IF AllDigits(s) THEN Int2Num(DecVal(s)) ELSE NaN
        ELSE IF Cardinality(dots) > 1 THEN NaN
        ELSE LET d  == CHOOSE k \in dots : TRUE
                 ip == SubSeq(s, 1, d - 1)
                 fp == SubSeq(s, d + 1, Len(s))
             IN  IF AllDigits(ip) /\ AllDigits(fp) /\ (ip # Empty \/ fp # Empty)
                 THEN Dec(DecVal(ip), StripZeros(fp))
                 ELSE NaN

RECURSIVE IntToString(_)
IntToString(k) ==
    IF k < 10 THEN <<Digits[k + 1]>>
    ELSE IntToString(k \div 10) \o <<Digits[(k % 10) + 1]>>

\* Number::toString
NumberToString(x) ==
    IF x.nan THEN <<"N", "a", "N">>
    ELSE IF x.fd = Empty THEN IntToString(x.i)
    ELSE IntToString(x.i) \o <<".">> \o x.fd

(***************************************************************************)
(* JavaScript values, as they appear in a parsed JSON body                 *)
(***************************************************************************)
Undefined == [t |-> "undefined", n |-> NaN, s |-> Empty]

Null == [t |-> "null", n |-> NaN, s |-> Empty]

Bool(b) == [t |-> IF b THEN "true" ELSE "false", n |-> NaN, s |-> Empty]

Num(x) == [t |-> "number", n |-> x, s |-> Empty]

Str(s) == [t |-> "string", n |-> NaN, s |-> s]

\* Number(v)
Number(v) ==
    CASE v.t = "undefined" -> NaN
      [] v.t = "null"      -> Int2Num(0)
      [] v.t = "true"      -> Int2Num(1)
      [] v.t = "false"     -> Int2Num(0)
      [] v.t = "number"    -> v.n
      [] v.t = "string"    -> StringToNumber(v.s)

\* String(v)
String(v) ==
    CASE v.t = "undefined" -> <<"u", "n", "d", "e", "f", "i", "n", "e", "d">>
      [] v.t = "null"      -> <<"n", "u", "l", "l">>
      [] v.t = "true"      -> <<"t", "r", "u", "e">>
      [] v.t = "false"     -> <<"f", "a", "l", "s", "e">>
      [] v.t = "number"    -> NumberToString(v.n)
      [] v.t = "string"    -> v.s

\* !!v
Truthy(v) ==
    CASE v.t = "undefined" -> FALSE
      [] v.t = "null"      -> FALSE
      [] v.t = "true"      -> TRUE
      [] v.t = "false"     -> FALSE
      [] v.t = "number"    -> ~v.n.nan /\ (v.n.i # 0 \/ v.n.fd # Empty)
      [] v.t = "string"    -> v.s # Empty

(***************************************************************************)
(* computeTIME                                                             *)
(***************************************************************************)
\* the mutant: the cutoff taken exclusive (> 4 instead of >= 4)
computeTIME_gt(technicalFit, functionalFit) ==
    LET techHigh == NumGE(Number(technicalFit), 5)
        funcHigh == NumGE(Number(functionalFit), 5)
    IN  IF techHigh /\ funcHigh THEN [code |-> "I", label |-> "Invest"]
        ELSE IF ~techHigh /\ funcHigh THEN [code |-> "M", label |-> "Migrate"]
        ELSE IF techHigh /\ ~funcHigh THEN [code |-> "T", label |-> "Tolerate"]
        ELSE [code |-> "E", label |-> "Eliminate"]

computeTIME(technicalFit, functionalFit) ==
    LET techHigh == NumGE(Number(technicalFit), 4)
        funcHigh == NumGE(Number(functionalFit), 4)
    IN  IF techHigh /\ funcHigh THEN [code |-> "I", label |-> "Invest"]
        ELSE IF ~techHigh /\ funcHigh THEN [code |-> "M", label |-> "Migrate"]
        ELSE IF techHigh /\ ~funcHigh THEN [code |-> "T", label |-> "Tolerate"]
        ELSE [code |-> "E", label |-> "Eliminate"]

\* the mutant: the page's preview taking 3 for a high rating
client_computeTIME_ge3(tech, func) ==
    LET techHigh == NumGE(Number(tech), 3)
        funcHigh == NumGE(Number(func), 3)
    IN  IF techHigh /\ funcHigh THEN [code |-> "I", label |-> "Invest"]
        ELSE IF ~techHigh /\ funcHigh THEN [code |-> "M", label |-> "Migrate"]
        ELSE IF techHigh /\ ~funcHigh THEN [code |-> "T", label |-> "Tolerate"]
        ELSE [code |-> "E", label |-> "Eliminate"]

\* computeTIME of the page's client script
client_computeTIME(tech, func) ==
    LET techHigh == NumGE(Number(tech), 4)
        funcHigh == NumGE(Number(func), 4)
    IN  IF techHigh /\ funcHigh THEN [code |-> "I", label |-> "Invest"]
        ELSE IF ~techHigh /\ funcHigh THEN [code |-> "M", label |-> "Migrate"]
        ELSE IF techHigh /\ ~funcHigh THEN [code |-> "T", label |-> "Tolerate"]
        ELSE [code |-> "E", label |-> "Eliminate"]

(***************************************************************************)
(* URL helpers                                                             *)
(***************************************************************************)
Letters ==
    <<"a", "b", "c", "d", "e", "f", "g", "h", "i", "j", "k", "l", "m",
      "n", "o", "p", "q", "r", "s", "t", "u", "v", "w", "x", "y", "z">>

Range(seq) == {seq[k] : k \in 1..Len(seq)}

\* Characters encodeURIComponent leaves as they are (of the modelled alphabet:
\* lower-case letters, digits and the unreserved marks).
Unreserved ==
    Range(Letters) \cup Range(Digits) \cup {"-", "_", ".", "!", "~", "*", "(", ")"}

\* The two hex digits of the escape of a reserved character.
EscapeOf(ch) ==
    CASE ch = " "  -> <<"2", "0">>
      [] ch = "\t" -> <<"0", "9">>
      [] ch = "%"  -> <<"2", "5">>
      [] ch = "/"  -> <<"2", "F">>
      [] ch = "?"  -> <<"3", "F">>
      [] OTHER     -> <<"3", "A">>

RECURSIVE encodeURIComponent(_)
encodeURIComponent(s) ==
    IF s = Empty THEN Empty
    ELSE (IF Head(s) \in Unreserved THEN <<Head(s)>>
          ELSE <<"%">> \o EscapeOf(Head(s)))
         \o encodeURIComponent(Tail(s))

\* pathname.split("/").filter(Boolean): the non-empty segments between slashes
RECURSIVE SplitPath(_, _)
SplitPath(s, cur) ==
    IF s = Empty THEN (IF cur = Empty THEN <<>> ELSE <<cur>>)
    ELSE IF Head(s) = "/"
         THEN (IF cur = Empty THEN <<>> ELSE <<cur>>) \o SplitPath(Tail(s), Empty)
         ELSE SplitPath(Tail(s), Append(cur, Head(s)))

PathRoot == <<"/">>

PathApi == <<"/", "a", "p", "i", "/">>

PathItems == <<"/", "a", "p", "i", "/", "i", "t", "e", "m", "s">>

PathCustomers ==
    <<"/", "a", "p", "i", "/", "c", "u", "s", "t", "o", "m", "e", "r", "s">>

(***************************************************************************)
(* Documents, upstream data and responses                                  *)
(***************************************************************************)
NoDoc ==
    [_id |-> Empty, customerName |-> Undefined, customerId |-> Undefined,
     category |-> Empty, solution |-> Empty, vendor |-> Empty, notes |-> Empty,
     technicalFit |-> NaN, functionalFit |-> NaN,
     timeCode |-> "", timeLabel |-> "",
     dateImplemented |-> Undefined, contractExpiration |-> Undefined,
     createdAt |-> 0, updatedAt |-> 0]

\* A value the worker holds after JSON.parse of an upstream body, or puts under
\* the "error" key: null, a string, an object (named by o), an array of
\* documents, one document, or one of the worker's own messages (named by o).
NoData == [t |-> "none", s |-> Empty, o |-> "", docs |-> <<>>, doc |-> NoDoc]

DataNull == [NoData EXCEPT !.t = "null"]

DataString(s) == [NoData EXCEPT !.t = "string", !.s = s]

DataObject(o) == [NoData EXCEPT !.t = "object", !.o = o]

DataArray(docs) == [NoData EXCEPT !.t = "array", !.docs = docs]

DataDoc(d) == [NoData EXCEPT !.t = "doc", !.doc = d]

Message(m) == [NoData EXCEPT !.t = "message", !.o = m]

\* The text of an upstream body: empty, the JSON text of a value, or text that
\* is not JSON.
TextEmpty == [t |-> "empty", s |-> Empty, data |-> NoData]

TextJson(d) == [t |-> "json", s |-> Empty, data |-> d]

TextRaw(s) == [t |-> "raw", s |-> s, data |-> NoData]

NoUp == [status |-> 0, text |-> TextEmpty, injected |-> FALSE]

NoCall ==
    [method |-> "", base |-> Empty, apikey |-> Empty, col |-> Empty, id |-> Empty,
     hasQ |-> FALSE,
     q |-> [customerName |-> Undefined, customerId |-> Undefined,
            category |-> Undefined],
     sort |-> "", fields |-> "", doc |-> NoDoc]

NoResp ==
    [kind |-> "none", status |-> 0, headers |-> {}, keys |-> {}, ok |-> FALSE,
     error |-> NoData, items |-> <<>>, item |-> NoData, customers |-> <<>>]

\* json(obj, status)
json(keys, ok, status) ==
    [NoResp EXCEPT !.kind = "json", !.status = status, !.keys = keys, !.ok = ok,
        !.headers = {<<"content-type", "application/json; charset=utf-8">>}]

jsonError(err, status) ==
    [json({"ok", "error"}, FALSE, status) EXCEPT !.error = err]

\* new Response("Not Found", { status: 404 })
PlainNotFound == [NoResp EXCEPT !.kind = "text", !.status = 404]

\* new Response(htmlPage(env), { headers })
HtmlPage ==
    [NoResp EXCEPT !.kind = "html", !.status = 200,
        !.headers =
            {<<"content-type", "text/html; charset=utf-8">>,
             <<"content-security-policy",
               "frame-ancestors https://packetfusioncrm.crm.dynamics.com;">>,
             <<"referrer-policy", "strict-origin-when-cross-origin">>,
             <<"x-content-type-options", "nosniff">>}]

\* What a handler has reached: a response, a pending call to the store (with
\* the handler that resumes on its reply), or an exception nobody caught.
Respond(r) == [kind |-> "response", resp |-> r, call |-> NoCall, then |-> ""]

Await(call, then) == [kind |-> "call", resp |-> NoResp, call |-> call, then |-> then]

Throw(m) ==
    [kind |-> "throw",
     resp |-> [NoResp EXCEPT !.kind = "exception", !.error = Message(m)],
     call |-> NoCall, then |-> ""]

(***************************************************************************)
(* restdbFetch and the handlers                                            *)
(***************************************************************************)
RequiredEnv == {"RESTDB_BASE", "RESTDB_COLLECTION", "RESTDB_API_KEY"}

\* requireEnv: the keys whose value is missing (or empty)
MissingEnv(e, keys) == {k \in keys : e[k] = Empty}

\* String(env.RESTDB_BASE).replace(/\/$/, "")
StripSlash(s) ==
    IF s # Empty /\ s[Len(s)] = "/" THEN SubSeq(s, 1, Len(s) - 1) ELSE s

\* restdbFetch up to its await of fetch(url, ...): throws when a required
\* setting is missing, otherwise the call is on its way to the store.
restdbFetch(e, call, then) ==
    IF MissingEnv(e, RequiredEnv) # {}
    THEN Throw("Missing env vars")
    ELSE Await([call EXCEPT !.base = StripSlash(e.RESTDB_BASE),
                            !.apikey = e.RESTDB_API_KEY], then)

\* res.ok
IsOk(status) == status >= 200 /\ status <= 299

\* restdbFetch after the await: data = text ? JSON.parse(text) : null, and the
\* raw text when JSON.parse throws.
ParseData(text) ==
    CASE text.t = "empty" -> DataNull
      [] text.t = "json"  -> text.data
      [] text.t = "raw"   -> DataString(text.s)

\* the mutant: S without the trim
S_notrim(v) == IF v.t \in {"undefined", "null"} THEN Empty ELSE String(v)

\* const S = (v) => (v == null ? "" : String(v).trim())
S(v) == IF v.t \in {"undefined", "null"} THEN Empty ELSE Trim(String(v))

\* x || null, for a string x
OrNull(x) == IF x = Empty THEN Null ELSE Str(x)

\* (url.searchParams.get(name) || "").trim()
Param(v) == IF Truthy(v) THEN Trim(String(v)) ELSE Empty

\* q.key = value when the value is non-empty
QKey(present, x) == IF present /\ x # Empty THEN Str(x) ELSE Undefined

\* the mutant: the rating range taken as 1 <= x < 5
RatingOk_excl5(x) == NumGE(x, 1) /\ NumLE(x, 4)

\* technicalFit >= 1 && technicalFit <= 5
RatingOk(x) == NumGE(x, 1) /\ NumLE(x, 5)

\* the mutant: the required-field check forgetting the solution
RequiredMissing_nosolution(customerName, category, solution) ==
    customerName = Empty \/ category = Empty

\* !customerName || !category || !solution
RequiredMissing(customerName, category, solution) ==
    customerName = Empty \/ category = Empty \/ solution = Empty

\* the mutant: the document built as { ...body, ...computed } with the body's
\* own timeCode/timeLabel winning when it carries them
BuildDoc_override(f, technicalFit, functionalFit, now) ==
    LET time == computeTIME(Num(technicalFit), Num(functionalFit))
    IN  [NoDoc EXCEPT
            !.customerName = Str(S(f.customerName)),
            !.customerId = OrNull(S(f.customerId)),
            !.category = S(f.category),
            !.solution = S(f.solution),
            !.vendor = S(f.vendor),
            !.notes = S(f.notes),
            !.technicalFit = technicalFit,
            !.functionalFit = functionalFit,
            !.timeCode = IF f.timeCode = "" THEN time.code ELSE f.timeCode,
            !.timeLabel = IF f.timeLabel = "" THEN time.label ELSE f.timeLabel,
            !.dateImplemented = OrNull(S(f.dateImplemented)),
            !.contractExpiration = OrNull(S(f.contractExpiration)),
            !.createdAt = now,
            !.updatedAt = now]

\* const doc = { customerName, customerId: customerId || null, ... }
BuildDoc(f, technicalFit, functionalFit, now) ==
    LET time == computeTIME(Num(technicalFit), Num(functionalFit))
    IN  [NoDoc EXCEPT
            !.customerName = Str(S(f.customerName)),
            !.customerId = OrNull(S(f.customerId)),
            !.category = S(f.category),
            !.solution = S(f.solution),
            !.vendor = S(f.vendor),
            !.notes = S(f.notes),
            !.technicalFit = technicalFit,
            !.functionalFit = functionalFit,
            !.timeCode = time.code,
            !.timeLabel = time.label,
            !.dateImplemented = OrNull(S(f.dateImplemented)),
            !.contractExpiration = OrNull(S(f.contractExpiration)),
            !.createdAt = now,
            !.updatedAt = now]

\* The fields of a request body; a body that is not a JSON object has none.
NoFields ==
    [technicalFit |-> Undefined, functionalFit |-> Undefined,
     customerName |-> Undefined, customerId |-> Undefined,
     category |-> Undefined, solution |-> Undefined, vendor |-> Undefined,
     notes |-> Undefined, dateImplemented |-> Undefined,
     contractExpiration |-> Undefined, timeCode |-> "", timeLabel |-> ""]

\* await req.json().catch(() => null), then !body: the body is usable when it
\* parsed to a truthy value (an object is always truthy).
BodyUsable(body) ==
    CASE body.kind = "invalid" -> FALSE
      [] body.kind = "value"   -> Truthy(body.v)
      [] body.kind = "object"  -> TRUE

BodyFields(body) == IF body.kind = "object" THEN body.f ELSE NoFields

\* the mutant: the list handler dropping the customerName filter
ListQuery_nocustomer(query) ==
    LET customerId == Param(query.customerId)
        category   == Param(query.category)
    IN  [customerName |-> Undefined,
         customerId   |-> QKey(TRUE, customerId),
         category     |-> QKey(TRUE, category)]

\* the q object of GET /api/items
ListQuery(query) ==
    LET customerName == Param(query.customerName)
        customerId   == Param(query.customerId)
        category     == Param(query.category)
    IN  [customerName |-> QKey(TRUE, customerName),
         customerId   |-> QKey(customerName = Empty, customerId),
         category     |-> QKey(TRUE, category)]

\* Object.keys(q).length > 0
HasKeys(q) ==
    q.customerName # Undefined \/ q.customerId # Undefined \/ q.category # Undefined

\* the mutant: the delete handler passing the path segment on without a
\* collection-relative identifier (it deletes by the second path segment)
DeleteId_wrongpart(parts) == encodeURIComponent(parts[2])

\* encodeURIComponent(id) of DELETE /api/items/:id
\* the mutant: the delete handler removing the first record the store handed
\* out, whatever identifier the path names
DeleteId_first(parts) == <<"a", "0">>

DeleteId(parts) == encodeURIComponent(parts[3])

\* the mutant: the create handler checking the required strings before the
\* ratings
handleItems_requiredfirst(req, e, now) ==
    LET baseCol == e.RESTDB_COLLECTION
        parts   == SplitPath(req.pathname, Empty)
        hasId   == Len(parts) >= 3
        col     == encodeURIComponent(baseCol)
    IN  IF baseCol = Empty
        THEN Respond(jsonError(Message("Missing RESTDB_COLLECTION"), 500))
        ELSE IF req.method = "GET" /\ ~hasId THEN
            LET q == ListQuery(req.query)
            IN  restdbFetch(e,
                    [NoCall EXCEPT !.method = "GET", !.col = col,
                                   !.hasQ = HasKeys(q), !.q = q,
                                   !.sort = "createdAt:-1"],
                    "list")
        ELSE IF req.method = "POST" /\ ~hasId THEN
            IF ~BodyUsable(req.body)
            THEN Respond(jsonError(Message("Invalid JSON body"), 400))
            ELSE
            LET f             == BodyFields(req.body)
                technicalFit  == Number(f.technicalFit)
                functionalFit == Number(f.functionalFit)
            IN  IF RequiredMissing(S(f.customerName), S(f.category),
                                   S(f.solution))
                THEN Respond(jsonError(
                        Message("customerName, category, and solution are required"),
                        400))
                ELSE IF ~RatingOk(technicalFit)
                THEN Respond(jsonError(Message("technicalFit must be 1-5"), 400))
                ELSE IF ~RatingOk(functionalFit)
                THEN Respond(jsonError(Message("functionalFit must be 1-5"), 400))
                ELSE restdbFetch(e,
                        [NoCall EXCEPT
                            !.method = "POST", !.col = col,
                            !.doc = BuildDoc(f, technicalFit, functionalFit, now)],
                        "create")
        ELSE IF req.method = "DELETE" /\ hasId THEN
            restdbFetch(e,
                [NoCall EXCEPT !.method = "DELETE", !.col = col,
                               !.id = DeleteId(parts)],
                "delete")
        ELSE Respond(jsonError(Message("Method not allowed"), 405))

handleItems(req, e, now) ==
    LET baseCol == e.RESTDB_COLLECTION
        parts   == SplitPath(req.pathname, Empty)
        hasId   == Len(parts) >= 3
        col     == encodeURIComponent(baseCol)
    IN  IF baseCol = Empty
        THEN Respond(jsonError(Message("Missing RESTDB_COLLECTION"), 500))
        ELSE IF req.method = "GET" /\ ~hasId THEN
            LET q == ListQuery(req.query)
            IN  restdbFetch(e,
                    [NoCall EXCEPT !.method = "GET", !.col = col,
                                   !.hasQ = HasKeys(q), !.q = q,
                                   !.sort = "createdAt:-1"],
                    "list")
        ELSE IF req.method = "POST" /\ ~hasId THEN
            IF ~BodyUsable(req.body)
            THEN Respond(jsonError(Message("Invalid JSON body"), 400))
            ELSE
            LET f             == BodyFields(req.body)
                technicalFit  == Number(f.technicalFit)
                functionalFit == Number(f.functionalFit)
            IN  IF ~RatingOk(technicalFit)
                THEN Respond(jsonError(Message("technicalFit must be 1-5"), 400))
                ELSE IF ~RatingOk(functionalFit)
                THEN Respond(jsonError(Message("functionalFit must be 1-5"), 400))
                ELSE IF RequiredMissing(S(f.customerName), S(f.category),
                                        S(f.solution))
                THEN Respond(jsonError(
                        Message("customerName, category, and solution are required"),
                        400))
                ELSE restdbFetch(e,
                        [NoCall EXCEPT
                            !.method = "POST", !.col = col,
                            !.doc = BuildDoc(f, technicalFit, functionalFit, now)],
                        "create")
        ELSE IF req.method = "DELETE" /\ hasId THEN
            restdbFetch(e,
                [NoCall EXCEPT !.method = "DELETE", !.col = col,
                               !.id = DeleteId(parts)],
                "delete")
        ELSE Respond(jsonError(Message("Method not allowed"), 405))

\* the mutant: the customer summary served whatever the method
handleCustomers_anymethod(req, e) ==
    restdbFetch(e,
        [NoCall EXCEPT !.method = "GET",
                       !.col = encodeURIComponent(e.RESTDB_COLLECTION),
                       !.fields = "customerName:1",
                       !.sort = "customerName:1"],
        "customers")

handleCustomers(req, e) ==
    IF req.method # "GET"
    THEN Respond(jsonError(Message("Method not allowed"), 405))
    ELSE restdbFetch(e,
            [NoCall EXCEPT !.method = "GET",
                           !.col = encodeURIComponent(e.RESTDB_COLLECTION),
                           !.fields = "customerName:1",
                           !.sort = "customerName:1"],
            "customers")

handleApi(req, e, now) ==
    IF StartsWith(req.pathname, PathItems) THEN handleItems(req, e, now)
    ELSE IF req.pathname = PathCustomers THEN handleCustomers(req, e)
    ELSE Respond(jsonError(Message("Not Found"), 404))

\* A template literal is evaluated by evaluating its ${...} in order; an
\* identifier that is not bound where the template stands throws a
\* ReferenceError.  The result: the page, or the identifier that threw.
Template(refs, scope) ==
    IF \A i \in 1..Len(refs) : refs[i] \in scope
    THEN [threw |-> FALSE, unbound |-> ""]
    ELSE [threw |-> TRUE,
          unbound |-> refs[CHOOSE i \in 1..Len(refs) :
                            /\ refs[i] \notin scope
                            /\ \A j \in 1..(i - 1) : refs[j] \in scope]]

\* the names bound inside htmlPage
PageScope == {"env", "categories", "categoriesOptions", "escapeHtml"}

\* the ${...} of the page's template, in order
PageRefs == <<"categoriesOptions", "categoriesOptions">>

\* htmlPage(env): the category options, then the page template
htmlPage(e) == Template(PageRefs, PageScope)

\* the same in the revision src/_worker.js: the row template of the client's
\* renderRows, inside the page template, has ${sol}, ${ven}, ${di || ce ...}
\* without the backslash its neighbours have
PageScope_worker ==
    {"env", "categories", "categoriesOptions", "escapeHtml", "fitOptions",
     "tokenGateEnabled"}

PageRefs_worker ==
    <<"categoriesOptions", "fitOptions", "fitOptions", "categoriesOptions",
      "tokenGateEnabled", "tokenGateEnabled", "sol", "ven", "di">>

htmlPage_worker(e) == Template(PageRefs_worker, PageScope_worker)

\* if (url.pathname === "/") return new Response(htmlPage(env), { headers })
Page(html) ==
    IF html.threw THEN Throw("ReferenceError") ELSE Respond(HtmlPage)

\* export default { async fetch(req, env) }, up to its first await of the store
fetch(req, e, now) ==
    IF req.pathname = PathRoot THEN Page(htmlPage(e))
    ELSE IF StartsWith(req.pathname, PathApi) THEN handleApi(req, e, now)
    ELSE Respond(PlainNotFound)

(***************************************************************************)
(* The handlers after the store has replied                                *)
(***************************************************************************)
\* Collation order of the modelled alphabet (String.prototype.localeCompare).
Collation ==
    <<"\t", " ", "_", "-", ".", "/", "?", "%">> \o Digits \o Letters

CharRank(ch) == CHOOSE k \in 1..Len(Collation) : Collation[k] = ch

\* a.localeCompare(b) < 0, = 0, > 0 as -1, 0, 1
RECURSIVE localeCompare(_, _)
localeCompare(a, b) ==
    IF a = Empty /\ b = Empty THEN 0
    ELSE IF a = Empty THEN -1
    ELSE IF b = Empty THEN 1
    ELSE IF CharRank(Head(a)) < CharRank(Head(b)) THEN -1
    ELSE IF CharRank(Head(a)) > CharRank(Head(b)) THEN 1
    ELSE localeCompare(Tail(a), Tail(b))

\* map.set(name, (map.get(name) || 0) + 1): the map as its entries in
\* insertion order
MapBump(map, name) ==
    IF \E k \in 1..Len(map) : map[k].customerName = name
    THEN [k \in 1..Len(map) |->
            IF map[k].customerName = name
            THEN [map[k] EXCEPT !.count = @ + 1]
            ELSE map[k]]
    ELSE Append(map, [customerName |-> name, count |-> 1])

\* it && it.customerName ? String(it.customerName).trim() : ""
ItemName(it) ==
    IF Truthy(it.customerName) THEN Trim(String(it.customerName)) ELSE Empty

\* the mutant: the aggregation counting every name once, whatever its frequency
RECURSIVE CountNames_once(_, _)
CountNames_once(items, map) ==
    IF items = <<>> THEN map
    ELSE LET name == ItemName(Head(items))
         IN  CountNames_once(Tail(items),
                IF name = Empty \/ (\E k \in 1..Len(map) : map[k].customerName = name)
                THEN map
                ELSE Append(map, [customerName |-> name, count |-> 1]))

\* for (const it of items) { ...; if (!name) continue; map.set(...) }
RECURSIVE CountNames(_, _)
CountNames(items, map) ==
    IF items = <<>> THEN map
    ELSE LET name == ItemName(Head(items))
         IN  CountNames(Tail(items),
                        IF name = Empty THEN map ELSE MapBump(map, name))

\* one entry put in its place in an already sorted array (stable)
RECURSIVE InsertSorted(_, _)
InsertSorted(sorted, x) ==
    IF sorted = <<>> THEN <<x>>
    ELSE IF localeCompare(x.customerName, Head(sorted).customerName) < 0
         THEN <<x>> \o sorted
         ELSE <<Head(sorted)>> \o InsertSorted(Tail(sorted), x)

\* .sort((a, b) => a.customerName.localeCompare(b.customerName))
RECURSIVE SortCustomers(_, _)
SortCustomers(entries, sorted) ==
    IF entries = <<>> THEN sorted
    ELSE SortCustomers(Tail(entries), InsertSorted(sorted, Head(entries)))

\* the mutant: a body that is not an array wrapped in one
AsArray_wrap(data) == IF data.t = "array" THEN data.docs ELSE <<data.doc>>

\* Array.isArray(data) ? data : []
AsArray(data) == IF data.t = "array" THEN data.docs ELSE <<>>

\* the mutant: an upstream failure answered with the worker's own text instead
\* of the store's body
UpstreamError_generic(up) ==
    jsonError(Message("Upstream error"), up.status)

\* if (!res.ok) return json({ ok: false, error: data }, res.status)
UpstreamError(up) == jsonError(ParseData(up.text), up.status)

\* the mutant: a create the store served answered 400 after the record was
\* stored
Resume_late400(then, up) ==
    IF ~IsOk(up.status) THEN UpstreamError(up)
    ELSE LET data == ParseData(up.text)
         IN  CASE then = "list" ->
                    [json({"ok", "items"}, TRUE, 200) EXCEPT !.items = AsArray(data)]
               [] then = "create" ->
                    jsonError(Message("Invalid JSON body"), 400)
               [] then = "delete" ->
                    json({"ok"}, TRUE, 200)
               [] then = "customers" ->
                    [json({"ok", "customers"}, TRUE, 200) EXCEPT
                        !.customers =
                            SortCustomers(CountNames(AsArray(data), <<>>), <<>>)]

\* the part of each handler that runs on the store's reply
Resume(then, up) ==
    IF ~IsOk(up.status) THEN UpstreamError(up)
    ELSE LET data == ParseData(up.text)
         IN  CASE then = "list" ->
                    [json({"ok", "items"}, TRUE, 200) EXCEPT !.items = AsArray(data)]
               [] then = "create" ->
                    [json({"ok", "item"}, TRUE, 200) EXCEPT !.item = data]
               [] then = "delete" ->
                    json({"ok"}, TRUE, 200)
               [] then = "customers" ->
                    [json({"ok", "customers"}, TRUE, 200) EXCEPT
                        !.customers =
                            SortCustomers(CountNames(AsArray(data), <<>>), <<>>)]

(***************************************************************************)
(* The external document store (restdb.io), from its contract: list with a *)
(* filter, a sort and a projection; create, which assigns the identifier;  *)
(* delete by identifier.  Any call may also fail with a non-2xx status.    *)
(***************************************************************************)
\* identifiers the store hands out in a run, and ticks of the worker's clock
MaxIds == 2

MaxClock == 1

\* the collection the store holds, and the deployment's settings for it
Collection == <<"t", "m">>

BaseUrl == <<"r", "/">>

ApiKey == <<"x">>

\* the k-th identifier the store hands out (a hexadecimal object id)
IdOf(k) == <<"a", Digits[k + 1]>>

HexVal(ch) ==
    CASE ch = "A" -> 10 [] ch = "B" -> 11 [] ch = "C" -> 12
      [] ch = "D" -> 13 [] ch = "E" -> 14 [] ch = "F" -> 15
      [] OTHER -> DigitVal(ch)

\* the character a %XX escape stands for
Unescape(h, l) ==
    LET code == 16 * HexVal(h) + HexVal(l)
    IN  CASE code = 32 -> " " [] code = 9 -> "\t" [] code = 37 -> "%"
          [] code = 47 -> "/" [] code = 63 -> "?" [] OTHER -> ":"

RECURSIVE decodeURIComponent(_)
decodeURIComponent(s) ==
    IF s = Empty THEN Empty
    ELSE IF Head(s) = "%" /\ Len(s) >= 3
         THEN <<Unescape(s[2], s[3])>> \o decodeURIComponent(SubSeq(s, 4, Len(s)))
         ELSE <<Head(s)>> \o decodeURIComponent(Tail(s))

\* a document matches q when every key of q equals the document's field
Matches(d, q) ==
    /\ q.customerName # Undefined => d.customerName = q.customerName
    /\ q.customerId # Undefined => d.customerId = q.customerId
    /\ q.category # Undefined => Str(d.category) = q.category

\* fields = {customerName: 1}: the identifier and the customer name only
Project(d, fields) ==
    IF fields = "customerName:1"
    THEN [NoDoc EXCEPT !._id = d._id, !.customerName = d.customerName]
    ELSE d

\* the orders the store may return docs in under a sort: createdAt descending
\* (ties in any order); the order by customerName is left open.
InOrder(docs, sort) ==
    sort = "createdAt:-1" =>
        \A k \in 1..(Len(docs) - 1) : docs[k].createdAt >= docs[k + 1].createdAt

Arrangements(docs, sort) ==
    LET n     == Len(docs)
        perms == {p \in [1..n -> 1..n] : \A i, j \in 1..n : i # j => p[i] # p[j]}
    IN  {arr \in {[k \in 1..n |-> docs[p[k]]] : p \in perms} : InOrder(arr, sort)}

HasDoc(st, id) == \E k \in 1..Len(st) : st[k]._id = id

RemoveDoc(st, id) == SelectSeq(st, LAMBDA d : d._id # id)

\* a record written by the earlier revision of the worker: a customerId and
\* no customerName
SeedDoc(k) ==
    [NoDoc EXCEPT
        !._id = IdOf(k),
        !.customerId = Str(<<"c">>),
        !.category = <<"x">>,
        !.solution = <<"s">>,
        !.technicalFit = Int2Num(5),
        !.functionalFit = Int2Num(2),
        !.timeCode = "T",
        !.timeLabel = "Tolerate",
        !.dateImplemented = Null,
        !.contractExpiration = Null]

Seeded(n) == [k \in 1..n |-> SeedDoc(k - 1)]

\* the failures the store (or the network in front of it) may answer with
FailStatuses == {404, 500, 503}

FailTexts ==
    {TextEmpty,
     TextRaw(<<"o", "o", "p", "s">>),
     TextJson(DataObject("{message}"))}

Failure(status, text) == [status |-> status, text |-> text, injected |-> TRUE]

Reply(status, text) == [status |-> status, text |-> text, injected |-> FALSE]

\* The store serving one call: the replies it may give, each with the
\* collection and identifier counter it leaves.
Served(call, st, n) ==
    IF decodeURIComponent(call.col) # Collection
    THEN {[up |-> Reply(404, TextJson(DataObject("{message}"))), store |-> st, nextId |-> n]}
    ELSE IF call.method = "GET" THEN
        LET found == SelectSeq(st, LAMBDA d : ~call.hasQ \/ Matches(d, call.q))
            shown == [k \in 1..Len(found) |-> Project(found[k], call.fields)]
        IN  {[up |-> Reply(200, TextJson(DataArray(arr))), store |-> st, nextId |-> n] :
                arr \in Arrangements(shown, call.sort)}
    ELSE IF call.method = "POST" THEN
        IF n >= MaxIds THEN {}
        ELSE LET d == [call.doc EXCEPT !._id = IdOf(n)]
             IN  {[up |-> Reply(201, TextJson(DataDoc(d))),
                   store |-> Append(st, d), nextId |-> n + 1]}
    ELSE
        LET id == decodeURIComponent(call.id)
        IN  IF HasDoc(st, id)
            THEN {[up |-> Reply(200, TextJson(DataObject("{result}"))),
                   store |-> RemoveDoc(st, id), nextId |-> n]}
            ELSE {[up |-> Reply(404, TextJson(DataObject("{message}"))),
                   store |-> st, nextId |-> n]}

(***************************************************************************)
(* Requests                                                                *)
(***************************************************************************)
NoQuery == [customerName |-> Null, customerId |-> Null, category |-> Null]

NoBody == [kind |-> "invalid", v |-> Undefined, f |-> NoFields]

JsonValue(v) == [kind |-> "value", v |-> v, f |-> NoFields]

JsonObject(f) == [kind |-> "object", v |-> Undefined, f |-> f]

NoReq ==
    [method |-> "", pathname |-> Empty, token |-> Null, query |-> NoQuery,
     body |-> NoBody]

Request(method, pathname, token, query, body) ==
    [method |-> method, pathname |-> pathname, token |-> token,
     query |-> query, body |-> body]

Idle ==
    [phase |-> "idle", req |-> NoReq, call |-> NoCall, then |-> "",
     up |-> NoUp, resp |-> NoResp]

NoProbe ==
    [applied |-> FALSE, technicalFit |-> Undefined, functionalFit |-> Undefined,
     time |-> [code |-> "", label |-> ""],
     preview |-> [code |-> "", label |-> ""]]

Conns == {"c1", "c2"}

\* the instants new Date() may return at the next request
Nows == {t \in {clock, clock + 1} : t <= MaxClock}

\* JSON.stringify of a number: NaN is written as null
JsonNumber(x) == IF x.nan THEN Null ELSE Num(x)

(***************************************************************************)
(* The page's script (the <script> of htmlPage)                            *)
(***************************************************************************)
Upper ==
    <<"A", "B", "C", "D", "E", "F", "G", "H", "I", "J", "K", "L", "M",
      "N", "O", "P", "Q", "R", "S", "T", "U", "V", "W", "X", "Y", "Z">>

\* characters URLSearchParams.toString() leaves as they are
FormUnreserved ==
    Range(Letters) \cup Range(Upper) \cup Range(Digits) \cup {"*", "-", ".", "_"}

\* URLSearchParams.toString() of one name or value
RECURSIVE FormEncode(_)
FormEncode(s) ==
    IF s = Empty THEN Empty
    ELSE (IF Head(s) \in FormUnreserved THEN <<Head(s)>>
          ELSE IF Head(s) = " " THEN <<"+">>
          ELSE <<"%">> \o EscapeOf(Head(s)))
         \o FormEncode(Tail(s))

\* the name or value URLSearchParams reads from a query string
RECURSIVE FormDecode(_)
FormDecode(s) ==
    IF s = Empty THEN Empty
    ELSE IF Head(s) = "+" THEN <<" ">> \o FormDecode(Tail(s))
    ELSE IF Head(s) = "%" /\ Len(s) >= 3
         THEN <<Unescape(s[2], s[3])>> \o FormDecode(SubSeq(s, 4, Len(s)))
         ELSE <<Head(s)>> \o FormDecode(Tail(s))

\* s.split(ch)
RECURSIVE SplitOn(_, _, _)
SplitOn(s, ch, cur) ==
    IF s = Empty THEN <<cur>>
    ELSE IF Head(s) = ch THEN <<cur>> \o SplitOn(Tail(s), ch, Empty)
         ELSE SplitOn(Tail(s), ch, Append(cur, Head(s)))

\* the text after the first "=" of a pair
RECURSIVE AfterEquals(_)
AfterEquals(s) ==
    IF s = Empty THEN Empty
    ELSE IF Head(s) = "=" THEN Tail(s) ELSE AfterEquals(Tail(s))

\* new URLSearchParams(search).get(key): the value of the first pair named
\* key, null when there is none
SearchGet(search, key) ==
    LET pairs == IF search = Empty THEN <<>> ELSE SplitOn(search, "&", Empty)
        hits  == SelectSeq(pairs,
                    LAMBDA pr : FormDecode(SplitOn(pr, "=", Empty)[1]) = key)
    IN  IF hits = <<>> THEN Null ELSE Str(FormDecode(AfterEquals(hits[1])))

KeyCustomerName == <<"c", "u", "s", "t", "o", "m", "e", "r", "N", "a", "m", "e">>

KeyCustomerId == <<"c", "u", "s", "t", "o", "m", "e", "r", "I", "d">>

KeyCategory == <<"c", "a", "t", "e", "g", "o", "r", "y">>

\* url.searchParams of the worker, for the three parameters it reads
ParseSearch(search) ==
    [customerName |-> SearchGet(search, KeyCustomerName),
     customerId   |-> SearchGet(search, KeyCustomerId),
     category     |-> SearchGet(search, KeyCategory)]

\* location.origin
Origin == <<"o">>

\* the rating buttons of a segmented control (data-v)
Buttons == {<<"1">>, <<"2">>, <<"3">>, <<"4">>, <<"5">>}

\* the first option of the category select of the form
FirstCategory == <<"U", "C", "/", "U", "C", "a", "a", "S">>

\* the text of #err: empty, or the message of an Error
NoErr == Message("")

\* what the script awaits on a connection: nothing, or the response to GET
\* /api/customers, GET /api/items, POST /api/items or DELETE /api/items/:id;
\* origin names the handler that started the chain, caught tells whether the
\* await sits inside a try whose catch calls setError; name and category are
\* what refresh read; latest (ghost) marks the most recently issued refresh
NoPend ==
    [await |-> "", origin |-> "", caught |-> FALSE, name |-> Empty,
     category |-> Empty, id |-> Empty, latest |-> FALSE]

\* ghost: the api call that completed last
NoLast ==
    [c |-> "", await |-> "", origin |-> "", ok |-> FALSE, name |-> Empty,
     category |-> Empty, id |-> Empty, latest |-> FALSE]

\* ghost: which refresh filled the table
NoShown == [name |-> Empty, category |-> Empty, latest |-> FALSE]

\* the document as served: the form empty, both ratings 5, the preview
\* (I, Invest), the link field empty, the table reading "Loading"; editing
\* and focusValue: the customer name has the focus, and its value when it got
\* it (the browser fires change on leaving when the value differs).  Ghosts:
\* shown, recent (the state of the most recently issued refresh), last, and
\* event and evc (the handler that ran last and the connection it used).
NoPage ==
    [loaded |-> FALSE, timer |-> FALSE,
     customerName |-> Empty, readonly |-> FALSE,
     editing |-> FALSE, focusValue |-> Empty,
     category |-> FirstCategory, solution |-> Empty, vendor |-> Empty,
     notes |-> Empty, dateImplemented |-> Empty, contractExpiration |-> Empty,
     technicalFit |-> <<"5">>, functionalFit |-> <<"5">>,
     techActive |-> {}, funcActive |-> {},
     techListeners |-> 0, funcListeners |-> 0,
     timeCode |-> "I", timeLabel |-> "Invest",
     filterCategory |-> Empty,
     crmLink |-> Empty, err |-> NoErr,
     th |-> "initial", tbody |-> "Loading", customers |-> <<>>, rows |-> <<>>,
     shown |-> NoShown,
     pend |-> [c \in Conns |-> NoPend],
     recent |-> "none",
     last |-> NoLast,
     event |-> "", evc |-> ""]

\* esc(s)
RECURSIVE esc(_)
esc(s) ==
    IF s = Empty THEN Empty
    ELSE (CASE Head(s) = "&" -> <<"&", "a", "m", "p", ";">>
            [] Head(s) = "<" -> <<"&", "l", "t", ";">>
            [] Head(s) = ">" -> <<"&", "g", "t", ";">>
            [] OTHER -> <<Head(s)>>)
         \o esc(Tail(s))

setError(p, msg) == [p EXCEPT !.err = msg]

\* the mutant: the preview computed once from the served ratings
updateTimePreview_stale(p) ==
    [p EXCEPT !.timeCode = "I", !.timeLabel = "Invest"]

updateTimePreview(p) ==
    LET t == client_computeTIME(Str(p.technicalFit), Str(p.functionalFit))
    IN  [p EXCEPT !.timeCode = t.code, !.timeLabel = t.label]

buildCrmLink(p) ==
    LET base == Origin \o <<"/">>
        name == Trim(p.customerName)
    IN  IF name = Empty THEN base
        ELSE base \o <<"?">> \o KeyCustomerName \o <<"=">>
                  \o encodeURIComponent(name)
                  \o <<"&", "e", "m", "b", "e", "d", "=", "1">>

updateCrmLink(p) == [p EXCEPT !.crmLink = buildCrmLink(p)]

\* setActive(v) of initSeg(segId, hiddenId): the hidden input takes v, the
\* buttons whose data-v is v get the class active and the others lose it, and
\* the preview is recomputed
setActive(p, seg, v) ==
    updateTimePreview(
        IF seg = "techSeg"
        THEN [p EXCEPT !.technicalFit = v,
                       !.techActive = {b \in Buttons : b = v}]
        ELSE [p EXCEPT !.functionalFit = v,
                       !.funcActive = {b \in Buttons : b = v}])

\* initSeg(segId, hiddenId): one more click listener on the control, then
\* setActive(val(hiddenId) || "5")
initSeg(p, seg) ==
    LET hidden == IF seg = "techSeg" THEN p.technicalFit ELSE p.functionalFit
        q      == IF seg = "techSeg"
                  THEN [p EXCEPT !.techListeners = @ + 1]
                  ELSE [p EXCEPT !.funcListeners = @ + 1]
    IN  setActive(q, seg, IF hidden = Empty THEN <<"5">> ELSE hidden)

\* the click listeners of a control run one after the other
RECURSIVE RunListeners(_, _, _, _)
RunListeners(p, seg, v, n) ==
    IF n = 0 THEN p ELSE RunListeners(setActive(p, seg, v), seg, v, n - 1)

\* initFromQuery: a customerName parameter that is not blank fills the
\* customer name and makes it read-only
initFromQuery(p, search) ==
    LET qs == SearchGet(search, KeyCustomerName)
        customerNameQS == IF qs = Null THEN Empty ELSE Trim(qs.s)
    IN  IF customerNameQS # Empty
        THEN [p EXCEPT !.customerName = customerNameQS, !.readonly = TRUE]
        ELSE p

\* the value under "error" read as a JavaScript condition
DataTruthy(d) ==
    CASE d.t \in {"none", "null"} -> FALSE
      [] d.t = "string"           -> d.s # Empty
      [] d.t = "message"          -> d.o # ""
      [] OTHER                    -> TRUE

\* api(path, opts) on the response r: the data returned, or the message of
\* the Error thrown when the status is not 2xx.  A response the worker did not
\* build (its exception page) has no JSON body.
ApiResult(r) ==
    LET ok   == r.kind # "exception" /\ IsOk(r.status)
        data == r.kind = "json"
        st   == IF r.kind = "exception" THEN 500 ELSE r.status
    IN  [ok    |-> ok,
         data  |-> data,
         error |-> IF ok THEN NoErr
                   ELSE IF data /\ DataTruthy(r.error) THEN r.error
                   ELSE Message("HTTP " \o ToString(st))]

\* renderCustomerList(customers)
renderCustomerList(p, customers) ==
    IF customers = <<>>
    THEN [p EXCEPT !.th = "browse", !.tbody = "No customers found yet.",
                   !.customers = <<>>, !.rows = <<>>]
    ELSE [p EXCEPT !.th = "browse", !.tbody = "rows", !.rows = <<>>,
                   !.customers =
                        [i \in 1..Len(customers) |->
                            [open  |-> Trim(customers[i].customerName),
                             name  |-> esc(Trim(customers[i].customerName)),
                             count |-> customers[i].count]]]

\* renderRows(items)
renderRows(p, items) ==
    IF items = <<>>
    THEN [p EXCEPT !.th = "item", !.tbody = "No data yet.",
                   !.customers = <<>>, !.rows = <<>>]
    ELSE [p EXCEPT !.th = "item", !.tbody = "rows", !.customers = <<>>,
                   !.rows =
                        [i \in 1..Len(items) |->
                            [del      |-> items[i]._id,
                             code     |-> IF items[i].timeCode = "" THEN "T"
                                          ELSE items[i].timeCode,
                             category |-> esc(items[i].category),
                             solution |-> esc(items[i].solution)]]]

\* the query string refresh builds for GET /api/items
ItemsSearch(name, category) ==
    FormEncode(KeyCustomerName) \o <<"=">> \o FormEncode(name)
    \o (IF category = Empty THEN Empty
        ELSE <<"&">> \o FormEncode(KeyCategory) \o <<"=">> \o FormEncode(category))

\* the mutant: refresh choosing its mode by the customer name as typed
refresh_raw(p) ==
    LET q        == updateCrmLink(setError(p, NoErr))
        name     == q.customerName
        category == q.filterCategory
    IN  [page  |-> q,
         await |-> IF name = Empty THEN "customers" ELSE "items",
         name  |-> name,
         category |-> category,
         req   |-> IF name = Empty
                   THEN Request("GET", PathCustomers, Null, NoQuery, NoBody)
                   ELSE Request("GET", PathItems, Null,
                                ParseSearch(ItemsSearch(name, category)), NoBody)]

\* refresh() up to its await: the error cleared, the link rebuilt, and the
\* request chosen by the trimmed customer name
refresh(p) ==
    LET q        == updateCrmLink(setError(p, NoErr))
        name     == Trim(q.customerName)
        category == q.filterCategory
    IN  [page  |-> q,
         await |-> IF name = Empty THEN "customers" ELSE "items",
         name  |-> name,
         category |-> category,
         req   |-> IF name = Empty
                   THEN Request("GET", PathCustomers, Null, NoQuery, NoBody)
                   ELSE Request("GET", PathItems, Null,
                                ParseSearch(ItemsSearch(name, category)), NoBody)]

\* JSON.stringify(payload) of saveBtn
Payload(p) ==
    JsonObject(
        [NoFields EXCEPT
            !.customerName = Str(Trim(p.customerName)),
            !.category = Str(p.category),
            !.solution = Str(Trim(p.solution)),
            !.vendor = Str(Trim(p.vendor)),
            !.notes = Str(Trim(p.notes)),
            !.technicalFit = JsonNumber(Number(Str(p.technicalFit))),
            !.functionalFit = JsonNumber(Number(Str(p.functionalFit))),
            !.dateImplemented = Str(p.dateImplemented),
            !.contractExpiration = Str(p.contractExpiration)])

\* the check of saveBtn before it posts: the message thrown, if any
SaveInvalid(p) ==
    IF Trim(p.customerName) = Empty THEN Message("Customer Name is required.")
    ELSE IF p.category = Empty THEN Message("Category is required.")
    ELSE IF Trim(p.solution) = Empty THEN Message("Current solution is required.")
    ELSE NoErr

(***************************************************************************)
(* Actions                                                                 *)
(***************************************************************************)
\* the mutant: the worker handling one request at a time, refusing a request
\* that arrives while another waits for the store
Receive_locked(c, req, now) ==
    /\ conn[c].phase # "upstream"
    /\ LET out == fetch(req, env, now)
           busy == \E d \in Conns \ {c} : conn[d].phase = "upstream"
       IN  conn' = [conn EXCEPT ![c] =
                IF busy
                THEN [Idle EXCEPT !.phase = "done", !.req = req,
                                  !.resp = jsonError(Message("Busy"), 409)]
                ELSE IF out.kind = "call"
                THEN [Idle EXCEPT !.phase = "upstream", !.req = req,
                                  !.call = out.call, !.then = out.then]
                ELSE [Idle EXCEPT !.phase = "done", !.req = req,
                                  !.resp = out.resp]]
    /\ clock' = now
    /\ UNCHANGED <<env, store, nextId, hist, probe, page>>

\* the connection after the worker ran its handler on req up to the response,
\* the uncaught exception or the await of the store's reply
Arrive(req, now) ==
    LET out == fetch(req, env, now)
    IN  IF out.kind = "call"
        THEN [Idle EXCEPT !.phase = "upstream", !.req = req,
                          !.call = out.call, !.then = out.then]
        ELSE [Idle EXCEPT !.phase = "done", !.req = req, !.resp = out.resp]

\* The worker receives a request and runs its handler up to the response, the
\* uncaught exception or the await of the store's reply.
Receive(c, req, now) ==
    /\ conn[c].phase # "upstream"
    /\ conn' = [conn EXCEPT ![c] = Arrive(req, now)]
    /\ clock' = now
    /\ UNCHANGED <<env, store, nextId, hist, probe, page>>

\* GET /api/items?customerName=&customerId=&category=
GetItems(c, queries) ==
    \E q \in queries :
        Receive(c, Request("GET", PathItems, Null, q, NoBody), clock)

\* POST /api/items (clients create while the store has identifiers left)
PostItems(c, bodies) ==
    /\ nextId < MaxIds
    /\ \E b \in bodies, now \in Nows :
        Receive(c, Request("POST", PathItems, Null, NoQuery, b), now)

\* DELETE /api/items/:id
DeleteItem(c, ids) ==
    \E id \in ids :
        Receive(c, Request("DELETE", PathItems \o <<"/">> \o id, Null, NoQuery,
                           NoBody), clock)

\* GET /api/customers
GetCustomers(c) ==
    Receive(c, Request("GET", PathCustomers, Null, NoQuery, NoBody), clock)

\* any method on any path, with or without the x-app-token header
AnyRequest(c, methods, paths, tokens, bodies) ==
    \E m \in methods, p \in paths, t \in tokens, b \in bodies :
        Receive(c, Request(m, p, t, NoQuery, b), clock)

\* the identifier a client named in the path of a DELETE
PathId(req) == SplitPath(req.pathname, Empty)[3]

\* the handler finishes on the store's reply; the ghost records the
\* identifiers the caller saw created and deleted
Finish(c, r) ==
    LET resp == Resume(conn[c].then, r.up)
    IN  /\ conn' = [conn EXCEPT ![c].phase = "done", ![c].up = r.up,
                                ![c].resp = resp]
        /\ store' = r.store
        /\ nextId' = r.nextId
        /\ hist' =
            IF resp.ok /\ conn[c].then = "create" /\ resp.item.t = "doc"
            THEN [hist EXCEPT !.created = @ \cup {resp.item.doc._id}]
            ELSE IF resp.ok /\ conn[c].then = "delete"
            THEN [hist EXCEPT !.deleted = @ \cup {PathId(conn[c].req)}]
            ELSE hist
        /\ UNCHANGED <<env, clock, probe, page>>

\* The store serves the pending call.
StoreReplies(c) ==
    /\ conn[c].phase = "upstream"
    /\ \E r \in Served(conn[c].call, store, nextId) : Finish(c, r)

\* The store (or the network in front of it) fails the pending call.
StoreFails(c, statuses, texts) ==
    /\ conn[c].phase = "upstream"
    /\ \E st \in statuses, tx \in texts :
        Finish(c, [up |-> Failure(st, tx), store |-> store, nextId |-> nextId])

\* the route / in the revision src/_worker.js
GetPage_worker(c) ==
    /\ conn[c].phase # "upstream"
    /\ conn' = [conn EXCEPT ![c] =
            [Idle EXCEPT !.phase = "done",
                         !.req = Request("GET", PathRoot, Null, NoQuery, NoBody),
                         !.resp = Page(htmlPage_worker(env)).resp]]
    /\ UNCHANGED <<env, store, nextId, clock, hist, probe, page>>

\* await fetch(url, ...) rejects (the store cannot be reached): restdbFetch
\* has no try/catch around it, nor has any of its callers.
StoreThrows(c) ==
    /\ conn[c].phase = "upstream"
    /\ conn' = [conn EXCEPT ![c].phase = "done",
                            ![c].resp = Throw("fetch failed").resp]
    /\ UNCHANGED <<env, store, nextId, clock, hist, probe, page>>

\* computeTIME applied to a pair of ratings
Classify(ratings) ==
    /\ \E t \in ratings, f \in ratings :
        probe' = [applied |-> TRUE, technicalFit |-> t, functionalFit |-> f,
                  time |-> computeTIME(t, f),
                  preview |-> client_computeTIME(t, f)]
    /\ UNCHANGED <<env, store, nextId, clock, conn, hist, page>>

(***************************************************************************)
(* The page's actions: what the user does, and what the script does when a *)
(* response arrives                                                        *)
(***************************************************************************)
\* click listeners one segmented control may collect (one at load, one more
\* with every Reset)
MaxListeners == 3

\* a connection the script can use for a new request
Free(c) == conn[c].phase # "upstream" /\ page.pend[c].await = ""

\* the page as a handler finds it (ghosts of the previous step cleared)
Handling(name, c) ==
    [page EXCEPT !.last = NoLast, !.event = name, !.evc = c]

\* a handler that sends nothing
Local(p) ==
    /\ page' = p
    /\ UNCHANGED <<env, store, nextId, clock, conn, hist, probe>>

\* await api(...): the request reaches the worker on c and the script waits
Send(c, p, req, pend) ==
    /\ conn' = [conn EXCEPT ![c] = Arrive(req, clock)]
    /\ page' = [p EXCEPT !.pend[c] = pend]
    /\ UNCHANGED <<env, store, nextId, clock, hist, probe>>

\* refresh() called in the handler origin, inside a try (caught) or with
\* .catch(function(){})
StartRefresh(c, p, origin, caught) ==
    LET r == refresh(p)
        q == [r.page EXCEPT
                !.pend = [d \in Conns |-> [p.pend[d] EXCEPT !.latest = FALSE]],
                !.shown.latest = FALSE,
                !.recent = "pending"]
    IN  Send(c, q, r.req,
             [NoPend EXCEPT !.await = r.await, !.origin = origin,
                            !.caught = caught, !.name = r.name,
                            !.category = r.category, !.latest = TRUE])

\* the document is parsed and the script runs to its end: initFromQuery, the
\* two initSeg, updateTimePreview, and the timer of the first refresh
PageLoad(searches) ==
    /\ ~page.loaded
    /\ \E search \in searches :
        Local(updateTimePreview(
                initSeg(initSeg(initFromQuery(
                    [Handling("load", "") EXCEPT !.loaded = TRUE, !.timer = TRUE],
                    search), "techSeg"), "funcSeg")))

\* setTimeout(function(){ refresh().catch(function(){}); }, 0)
PageTimer(c) ==
    /\ page.timer
    /\ Free(c)
    /\ StartRefresh(c, [Handling("timer", c) EXCEPT !.timer = FALSE], "load", FALSE)

\* the user can act: the script has run and its timer has fired
Ready == page.loaded /\ ~page.timer

\* the user types in the customer name (no handler listens to input)
TypeName(names) ==
    /\ Ready /\ ~page.readonly
    /\ \E n \in names :
        /\ n # page.customerName
        /\ Local([Handling("input", "") EXCEPT
                    !.customerName = n,
                    !.editing = TRUE,
                    !.focusValue = IF page.editing THEN @ ELSE page.customerName])

\* the user leaves the customer name: the browser fires change when the value
\* differs from the one the field had when it got the focus, and the handler
\* rebuilds the link and refreshes
ChangeName(c) ==
    /\ Ready /\ page.editing
    /\ IF page.customerName = page.focusValue
       THEN Local([Handling("blur", "") EXCEPT !.editing = FALSE])
       ELSE /\ Free(c)
            /\ StartRefresh(c,
                    updateCrmLink([Handling("customerName", c) EXCEPT
                                        !.editing = FALSE]),
                    "customerName", FALSE)

\* the user can click: a click elsewhere takes the focus from the customer
\* name first
CanClick == Ready /\ ~page.editing

\* the change event of the category filter
SelectFilter(c, cats) ==
    /\ CanClick
    /\ Free(c)
    /\ \E v \in cats :
        /\ v # page.filterCategory
        /\ StartRefresh(c,
                [Handling("filterCategory", c) EXCEPT !.filterCategory = v],
                "filterCategory", FALSE)

\* refreshBtn
ClickRefresh(c) ==
    /\ CanClick
    /\ Free(c)
    /\ StartRefresh(c, Handling("refreshBtn", c), "refreshBtn", FALSE)

\* the Open button of a row of the customer list
ClickOpen(c) ==
    /\ CanClick
    /\ Free(c)
    /\ page.th = "browse"
    /\ \E i \in DOMAIN page.customers :
        StartRefresh(c,
            updateCrmLink([Handling("open", c) EXCEPT
                              !.customerName = page.customers[i].open]),
            "open", FALSE)

\* the user types in the solution field
TypeSolution(values) ==
    /\ CanClick
    /\ \E v \in values :
        /\ v # page.solution
        /\ Local([Handling("input", "") EXCEPT !.solution = v])

\* a click on the button v of a segmented control
ClickRating(seg) ==
    /\ CanClick
    /\ \E v \in Buttons :
        Local(RunListeners(Handling(seg, ""), seg, v,
                IF seg = "techSeg" THEN page.techListeners
                ELSE page.funcListeners))

\* resetBtn
ClickReset ==
    /\ CanClick
    /\ page.techListeners < MaxListeners
    /\ Local(setError(updateTimePreview(updateCrmLink(
                initSeg(initSeg(
                    [Handling("resetBtn", "") EXCEPT
                        !.solution = Empty, !.vendor = Empty, !.notes = Empty,
                        !.technicalFit = <<"5">>, !.functionalFit = <<"5">>,
                        !.dateImplemented = Empty,
                        !.contractExpiration = Empty],
                    "techSeg"), "funcSeg"))), NoErr))

\* creates on their way to the store
Creating == {d \in Conns : conn[d].phase = "upstream" /\ conn[d].call.method = "POST"}

\* the mutant: saveBtn refusing a click while an earlier save is under way
ClickSave_guarded(c) ==
    /\ CanClick
    /\ Free(c)
    /\ nextId + Cardinality(Creating) < MaxIds
    /\ LET p   == setError(Handling("saveBtn", c), NoErr)
           bad == SaveInvalid(p)
       IN  IF bad # NoErr \/ \E d \in Conns : page.pend[d].origin = "save"
           THEN Local(setError(p, bad))
           ELSE Send(c, p,
                     Request("POST", PathItems, Null, NoQuery, Payload(p)),
                     [NoPend EXCEPT !.await = "post", !.origin = "save",
                                    !.caught = TRUE])

\* saveBtn, up to await api("/api/items", ...) (the user saves while the
\* store has identifiers left)
ClickSave(c) ==
    /\ CanClick
    /\ Free(c)
    /\ nextId + Cardinality(Creating) < MaxIds
    /\ LET p   == setError(Handling("saveBtn", c), NoErr)
           bad == SaveInvalid(p)
       IN  IF bad # NoErr
           THEN Local(setError(p, bad))
           ELSE Send(c, p,
                     Request("POST", PathItems, Null, NoQuery, Payload(p)),
                     [NoPend EXCEPT !.await = "post", !.origin = "save",
                                    !.caught = TRUE])

\* the mutant: the Delete button without the catch that shows the error
ClickDelete_uncaught(c) ==
    /\ CanClick
    /\ Free(c)
    /\ page.th = "item"
    /\ \E i \in DOMAIN page.rows :
        Send(c, Handling("delete", c),
             Request("DELETE", PathItems \o <<"/">> \o page.rows[i].del, Null,
                     NoQuery, NoBody),
             [NoPend EXCEPT !.await = "delete", !.origin = "delete",
                            !.caught = FALSE, !.id = page.rows[i].del])

\* the Delete button of a row, up to await api("/api/items/" + did, ...)
ClickDelete(c) ==
    /\ CanClick
    /\ Free(c)
    /\ page.th = "item"
    /\ \E i \in DOMAIN page.rows :
        Send(c, Handling("delete", c),
             Request("DELETE", PathItems \o <<"/">> \o page.rows[i].del, Null,
                     NoQuery, NoBody),
             [NoPend EXCEPT !.await = "delete", !.origin = "delete",
                            !.caught = TRUE, !.id = page.rows[i].del])

\* ghost: the api call awaited on c has completed
Completed(p, c, ok) ==
    LET w == page.pend[c]
    IN  [p EXCEPT
            !.last = [c |-> c, await |-> w.await, origin |-> w.origin,
                      ok |-> ok, name |-> w.name, category |-> w.category,
                      id |-> w.id, latest |-> w.latest],
            !.recent = IF w.await \in {"customers", "items"} /\ w.latest
                       THEN (IF ok THEN "ok" ELSE "failed") ELSE @]

\* api() throws: the rejection reaches the catch of the handler that awaits
\* it (setError), or the empty .catch of the refresh
Rejects(c, error) ==
    LET p == [Handling("response", c) EXCEPT !.pend[c] = NoPend]
    IN  Local(Completed(IF page.pend[c].caught THEN setError(p, error) ELSE p,
                        c, FALSE))

\* The response arrives and the script goes on after its await: to the end of
\* the handler, or to the await of the refresh that follows a save or a
\* delete.
PageResume(c) ==
    /\ page.pend[c].await # ""
    /\ conn[c].phase = "done"
    /\ LET w   == page.pend[c]
           r   == conn[c].resp
           out == ApiResult(r)
           p   == Completed([Handling("response", c) EXCEPT !.pend[c] = NoPend],
                            c, TRUE)
           by  == [name |-> w.name, category |-> w.category, latest |-> w.latest]
       IN  IF ~out.ok THEN Rejects(c, out.error)
           ELSE CASE w.await = "customers" ->
                    Local([renderCustomerList(p,
                                IF out.data THEN r.customers ELSE <<>>)
                            EXCEPT !.shown = by])
             [] w.await = "items" ->
                    Local([renderRows(p, IF out.data THEN r.items ELSE <<>>)
                            EXCEPT !.shown = by])
             [] w.await = "post" ->
                    StartRefresh(c,
                        updateCrmLink(
                            [p EXCEPT !.solution = Empty, !.vendor = Empty,
                                      !.notes = Empty,
                                      !.dateImplemented = Empty,
                                      !.contractExpiration = Empty]),
                        "save", TRUE)
             [] w.await = "delete" ->
                    StartRefresh(c, p, "delete", TRUE)

\* fetch rejects: the response is lost on its way back
PageNetFail(c) ==
    /\ page.pend[c].await # ""
    /\ conn[c].phase = "done"
    /\ Rejects(c, Message("Failed to fetch"))

(***************************************************************************)
(* Inputs                                                                  *)
(***************************************************************************)
EnvFull ==
    [RESTDB_BASE |-> BaseUrl, RESTDB_COLLECTION |-> Collection,
     RESTDB_API_KEY |-> ApiKey, APP_SHARED_TOKEN |-> Empty]

Secret == <<"s", "e", "c">>

\* every deployment: each setting present or absent
Envs ==
    [RESTDB_BASE : {Empty, BaseUrl}, RESTDB_COLLECTION : {Empty, Collection},
     RESTDB_API_KEY : {Empty, ApiKey}, APP_SHARED_TOKEN : {Empty, Secret}]

\* rating values a JSON body may carry
RatingValues ==
    {Undefined, Null, Bool(TRUE), Bool(FALSE),
     Num(Int2Num(0)), Num(Int2Num(1)), Num(Int2Num(2)), Num(Int2Num(3)),
     Num(Int2Num(4)), Num(Int2Num(5)), Num(Int2Num(6)),
     Num(Dec(3, <<"9">>)), Num(Dec(5, <<"5">>)), Num(Dec(0, <<"5">>)),
     Str(<<"5">>), Str(<<" ", "4", "\t">>), Str(<<"3", ".", "9">>),
     Str(<<"a", "b", "c">>), Str(Empty), Str(<<"4", "x">>)}

InitCommon ==
    /\ clock = 0
    /\ conn = [c \in Conns |-> Idle]
    /\ hist = [created |-> {}, deleted |-> {}]
    /\ probe = NoProbe
    /\ page = NoPage

(***************************************************************************)
(* SpecTIME: computeTIME on its own                                        *)
(***************************************************************************)
InitTIME ==
    /\ InitCommon
    /\ env = EnvFull
    /\ store = <<>>
    /\ nextId = 0

NextTIME == Classify(RatingValues)

SpecTIME == InitTIME /\ [][NextTIME]_vars

\* an integer rating k of 1..5, as a JSON number
IsRating(v) == v.t = "number" /\ IsInteger(v.n) /\ v.n.i \in 1..5

\* a value with no numeric reading: absent, or text that is not a number
NonNumeric(v) ==
    \/ v.t = "undefined"
    \/ v.t = "string" /\ \E k \in 1..Len(v.s) : v.s[k] \in Range(Letters)

\* C1: for integer ratings in 1..5 x 1..5, and for non-numeric ratings (which
\* count as not-high), computeTIME returns exactly the quadrant the threshold 4
\* selects: (I, Invest) when both are high, (M, Migrate) when only the
\* functional fit is, (T, Tolerate) when only the technical fit is, and
\* (E, Eliminate) when neither is.
C1_Quadrants ==
    (probe.applied
        /\ (IsRating(probe.technicalFit) \/ NonNumeric(probe.technicalFit))
        /\ (IsRating(probe.functionalFit) \/ NonNumeric(probe.functionalFit)))
    =>
    LET techHigh == IsRating(probe.technicalFit) /\ probe.technicalFit.n.i >= 4
        funcHigh == IsRating(probe.functionalFit) /\ probe.functionalFit.n.i >= 4
    IN  /\ (techHigh /\ funcHigh) => probe.time = [code |-> "I", label |-> "Invest"]
        /\ (~techHigh /\ funcHigh) => probe.time = [code |-> "M", label |-> "Migrate"]
        /\ (techHigh /\ ~funcHigh) => probe.time = [code |-> "T", label |-> "Tolerate"]
        /\ (~techHigh /\ ~funcHigh) => probe.time = [code |-> "E", label |-> "Eliminate"]

\* C1 witness: the boundary rating 4 against a non-numeric rating
C1_Witness ==
    /\ probe.applied
    /\ probe.technicalFit = Num(Int2Num(4))
    /\ probe.functionalFit = Str(<<"a", "b", "c">>)
    /\ probe.time.code = "T"

(***************************************************************************)
(* SpecCreate: POST /api/items over a wide set of bodies, against a store  *)
(* that already holds records                                              *)
(***************************************************************************)
Fields(tf, ff, cn, cat, sol) ==
    [NoFields EXCEPT !.technicalFit = tf, !.functionalFit = ff,
                     !.customerName = cn, !.category = cat, !.solution = sol]

Five == Num(Int2Num(5))

Two == Num(Int2Num(2))

\* values a required string field may carry
NameValues ==
    {Undefined, Null, Str(Empty), Str(<<" ">>), Str(<<"\t", " ">>),
     Str(<<"a">>), Str(<<" ", "a", " ">>), Num(Int2Num(0)), Bool(FALSE)}

CreateBodies ==
    \* one rating varied against a good one, and both bad
    {JsonObject(Fields(tf, Five, Str(<<"a">>), Str(<<"x">>), Str(<<"s">>))) :
        tf \in RatingValues}
    \cup
    {JsonObject(Fields(Two, ff, Str(<<"a">>), Str(<<"x">>), Str(<<"s">>))) :
        ff \in RatingValues}
    \cup
    {JsonObject(Fields(Num(Int2Num(0)), ff, Str(<<"a">>), Str(<<"x">>), Str(Empty))) :
        ff \in {Num(Int2Num(6)), Five}}
    \cup
    \* the required strings varied, the ratings good
    {JsonObject(Fields(Five, Two, cn, cat, sol)) :
        cn \in NameValues,
        cat \in {Undefined, Str(<<" ">>), Str(<<"x", " ">>)},
        sol \in {Null, Str(<<"s">>)}}
    \cup
    \* a body that carries its own timeCode and timeLabel
    {JsonObject([Fields(tf, ff, Str(<<"a">>), Str(<<"x">>), Str(<<"s">>))
                    EXCEPT !.timeCode = "E", !.timeLabel = "Eliminate",
                           !.vendor = Str(<<" ", "v">>), !.customerId = Str(<<"c">>)]) :
        tf \in {Five, Two}, ff \in {Five, Two}}
    \cup
    \* bodies that are not JSON objects
    {NoBody, JsonValue(Null), JsonValue(Num(Int2Num(0))), JsonValue(Five),
     JsonValue(Str(<<"x">>)), JsonValue(Bool(TRUE))}

InitCreate ==
    /\ InitCommon
    /\ env = EnvFull
    /\ store = Seeded(MaxIds - 1)
    /\ nextId = MaxIds - 1

NextCreate ==
    \/ PostItems("c1", CreateBodies)
    \/ StoreReplies("c1")
    \/ StoreFails("c1", {500}, {TextEmpty})

SpecCreate == InitCreate /\ [][NextCreate]_vars

\* a POST /api/items that got past the configuration guard and the body check
IsCreate(k) ==
    /\ k.phase \in {"upstream", "done"}
    /\ k.req.method = "POST"
    /\ k.req.pathname = PathItems
    /\ env.RESTDB_COLLECTION # Empty
    /\ BodyUsable(k.req.body)

Rejected(k, m) ==
    k.phase = "done" /\ k.resp.kind = "json" /\ k.resp.status = 400
    /\ k.resp.keys = {"ok", "error"} /\ ~k.resp.ok /\ k.resp.error = Message(m)

\* the request was forwarded to the store
Forwarded(k) == k.call # NoCall

\* C3: for every successful POST /api/items, the timeCode and timeLabel of the
\* record sent to the store and of the record returned to the caller are the
\* quadrant of the submitted ratings (cutoff 4), whatever timeCode or timeLabel
\* the request body carried.
C3_TimeRecomputed ==
    \A c \in Conns :
        LET k == conn[c]
            f == BodyFields(k.req.body)
            techHigh == NumGE(Number(f.technicalFit), 4)
            funcHigh == NumGE(Number(f.functionalFit), 4)
            code == IF techHigh /\ funcHigh THEN "I"
                    ELSE IF funcHigh THEN "M"
                    ELSE IF techHigh THEN "T" ELSE "E"
            label == IF techHigh /\ funcHigh THEN "Invest"
                     ELSE IF funcHigh THEN "Migrate"
                     ELSE IF techHigh THEN "Tolerate" ELSE "Eliminate"
        IN  (IsCreate(k) /\ k.phase = "done" /\ k.resp.ok) =>
                /\ k.call.doc.timeCode = code
                /\ k.call.doc.timeLabel = label
                /\ k.resp.item.t = "doc"
                /\ k.resp.item.doc.timeCode = code
                /\ k.resp.item.doc.timeLabel = label

\* C3 witness: a successful create whose body claimed (E, Eliminate) for the
\* ratings (5, 5)
C3_Witness ==
    LET k == conn["c1"]
    IN  /\ IsCreate(k) /\ k.phase = "done" /\ k.resp.ok
        /\ k.req.body.f.timeCode = "E"
        /\ k.req.body.f.technicalFit = Five
        /\ k.req.body.f.functionalFit = Five
        /\ k.resp.item.doc.timeCode = "I"

\* the rating reads as a number of the closed range 1..5
InRange(v) ==
    LET x == Number(v)
    IN  ~x.nan /\ (x.i \in 1..4 \/ (x.i = 5 /\ x.fd = Empty))

\* C4: a POST /api/items (with a usable body, in a deployment whose collection
\* is configured) is rejected with 400 and the technicalFit message when
\* technicalFit does not read as a number in 1..5, with 400 and the
\* functionalFit message when technicalFit does and functionalFit does not,
\* and with neither message when both do (1 and 5 included).
C4_RatingRange ==
    \A c \in Conns :
        LET k == conn[c]
            f == BodyFields(k.req.body)
        IN  IsCreate(k) =>
                /\ ~InRange(f.technicalFit) =>
                        Rejected(k, "technicalFit must be 1-5")
                /\ (InRange(f.technicalFit) /\ ~InRange(f.functionalFit)) =>
                        Rejected(k, "functionalFit must be 1-5")
                /\ (InRange(f.technicalFit) /\ InRange(f.functionalFit)) =>
                        /\ ~Rejected(k, "technicalFit must be 1-5")
                        /\ ~Rejected(k, "functionalFit must be 1-5")

\* C4 witness: functionalFit 6 rejected although technicalFit is fine
C4_Witness ==
    LET k == conn["c1"]
    IN  /\ IsCreate(k)
        /\ k.req.body.f.technicalFit = Two
        /\ k.req.body.f.functionalFit = Num(Int2Num(6))
        /\ Rejected(k, "functionalFit must be 1-5")

\* the field is absent, empty or white space only
Blank(v) ==
    \/ v.t \in {"undefined", "null"}
    \/ v.t = "string" /\ \A i \in 1..Len(v.s) : v.s[i] \in WhiteSpace

\* C5: a POST /api/items with valid ratings is rejected with 400 and the
\* combined message exactly when customerName, category or solution is absent,
\* empty or white space only; otherwise it is forwarded to the store.
C5_RequiredFields ==
    \A c \in Conns :
        LET k == conn[c]
            f == BodyFields(k.req.body)
            blank == Blank(f.customerName) \/ Blank(f.category) \/ Blank(f.solution)
        IN  (IsCreate(k) /\ InRange(f.technicalFit) /\ InRange(f.functionalFit)) =>
                /\ blank =>
                    /\ Rejected(k, "customerName, category, and solution are required")
                    /\ ~Forwarded(k)
                /\ ~blank =>
                    /\ Forwarded(k)
                    /\ k.call.method = "POST"
                    /\ k.call.doc.customerName = Str(Trim(String(f.customerName)))

\* C5 witness: a white-space-only customerName rejected
C5_Witness ==
    LET k == conn["c1"]
    IN  /\ IsCreate(k)
        /\ k.req.body.f.customerName = Str(<<"\t", " ">>)
        /\ k.req.body.f.category = Str(<<"x", " ">>)
        /\ k.req.body.f.solution = Str(<<"s">>)
        /\ Rejected(k, "customerName, category, and solution are required")

(***************************************************************************)
(* SpecStore: create, list, delete and the customer summary against the    *)
(* store                                                                   *)
(***************************************************************************)
GoodFields(cn, cat) == Fields(Five, Two, Str(cn), Str(cat), Str(<<"s">>))

StoreBodies ==
    {JsonObject(GoodFields(<<"b">>, <<"x">>)),
     JsonObject(GoodFields(<<" ", "a">>, <<"x">>)),
     JsonObject(GoodFields(<<"a">>, <<"y">>))}

Query(cn, cid, cat) == [customerName |-> cn, customerId |-> cid, category |-> cat]

StoreQueries ==
    {Query(cn, Null, cat) :
        cn \in {Null, Str(<<"a">>)}, cat \in {Null, Str(<<"y", " ">>)}}
    \cup
    {Query(cn, Null, Null) : cn \in {Str(<<" ", "a">>), Str(<<" ">>)}}
    \cup
    {Query(cn, Str(<<"c">>), Null) : cn \in {Null, Str(<<"a">>)}}

\* the identifiers the store may hand out, and one it never does
StoreIds == {IdOf(k) : k \in 0..(MaxIds - 1)} \cup {<<"f", "f">>}

\* the customerName of a record that was not written through this worker:
\* none, or one entered by hand with a leading blank
LegacyNames == {Undefined, Str(<<" ", "a">>)}

InitStore ==
    /\ InitCommon
    /\ env = EnvFull
    /\ \E n \in {0, 1}, name \in LegacyNames :
            /\ store = [k \in 1..n |-> [Seeded(n)[k] EXCEPT !.customerName = name]]
            /\ nextId = n

NextStore ==
    \/ PostItems("c1", StoreBodies)
    \/ GetItems("c1", StoreQueries)
    \/ DeleteItem("c1", StoreIds)
    \/ GetCustomers("c1")
    \/ StoreReplies("c1")
    \/ StoreFails("c1", {500}, {TextEmpty})

SpecStore == InitStore /\ [][NextStore]_vars

\* a request the store served (no injected failure) and the handler finished
Served200(k, then) ==
    k.phase = "done" /\ k.then = then /\ ~k.up.injected /\ IsOk(k.up.status)

IdsOf(docs) == {docs[i]._id : i \in 1..Len(docs)}

Descending(docs) ==
    \A i \in 1..(Len(docs) - 1) : docs[i].createdAt >= docs[i + 1].createdAt

\* C6: once a create has returned identifier i, a DELETE /api/items/i that the
\* store serves answers 200 {ok:true} (unless i was deleted before) and i is
\* gone; every later list contains no deleted identifier, and an unfiltered
\* list still contains every other record.
C6_RoundTrip ==
    \A c \in {"c1"} :
        LET k == conn[c]
        IN  /\ (k.phase = "done" /\ k.then = "delete" /\ ~k.up.injected
                    /\ PathId(k.req) \in hist.created) =>
                /\ PathId(k.req) \in hist.deleted
                /\ ~HasDoc(store, PathId(k.req))
                /\ k.resp.ok => (k.resp.status = 200 /\ k.resp.keys = {"ok"})
                /\ ~k.resp.ok => k.resp.status = 404
            /\ Served200(k, "list") =>
                /\ k.resp.ok /\ k.resp.keys = {"ok", "items"}
                /\ IdsOf(k.resp.items) \cap hist.deleted = {}
                /\ ~k.call.hasQ =>
                        (hist.created \ hist.deleted) \subseteq IdsOf(k.resp.items)

\* C6 witness: two records created, one of them deleted, and a list that
\* still shows the other
C6_Witness ==
    LET k == conn["c1"]
    IN  /\ Served200(k, "list")
        /\ hist.deleted # {}
        /\ \E i \in hist.created \ hist.deleted : i \in IdsOf(k.resp.items)

\* the stored records a list must return for the filter values cn and cat
\* (Undefined: no filter on that field)
Expected(cn, cid, cat) ==
    {store[i] : i \in {j \in 1..Len(store) :
        /\ cn # Undefined => store[j].customerName = cn
        /\ cid # Undefined => store[j].customerId = cid
        /\ cat # Undefined => Str(store[j].category) = cat}}

ListedExactly(k, docs) ==
    /\ k.resp.ok /\ k.resp.status = 200
    /\ {k.resp.items[i] : i \in 1..Len(k.resp.items)} = docs
    /\ Len(k.resp.items) = Cardinality(docs)
    /\ Descending(k.resp.items)

AsFilter(v) == IF v = Null THEN Undefined ELSE v

\* the parameter as the handler reads it: trimmed, and no filter when empty
Trimmed(v) ==
    IF v = Null \/ Trim(v.s) = Empty THEN Undefined ELSE Str(Trim(v.s))

\* C7 as stated: a list with a customerName parameter returns exactly the
\* stored records whose customerName equals that value (and whose category
\* equals the category parameter when given), a list with no filter returns
\* all records, ordered by createdAt descending.
C7_Original ==
    \A c \in {"c1"} :
        LET k == conn[c]
        IN  (Served200(k, "list") /\ k.req.query.customerId = Null) =>
                ListedExactly(k, Expected(AsFilter(k.req.query.customerName),
                                          Undefined,
                                          AsFilter(k.req.query.category)))

\* C7 amended: the filter values are the trimmed parameters, a parameter that
\* is empty after trimming is no filter, and a customerId parameter filters by
\* customerId when no customerName filter is given.
C7_Amended ==
    \A c \in {"c1"} :
        LET k  == conn[c]
            cn == Trimmed(k.req.query.customerName)
        IN  Served200(k, "list") =>
                ListedExactly(k, Expected(cn,
                    IF cn = Undefined THEN Trimmed(k.req.query.customerId)
                    ELSE Undefined,
                    Trimmed(k.req.query.category)))

\* C7 witness: a filter by customer that returns one record and leaves
\* another out
C7_Witness ==
    LET k == conn["c1"]
    IN  /\ Served200(k, "list")
        /\ k.req.query.customerName = Str(<<"a">>)
        /\ Len(k.resp.items) = 1
        /\ \E i \in 1..Len(store) : store[i].customerName = Str(<<"b">>)

\* the non-empty customer names in the store
StoredNames ==
    {store[i].customerName.s : i \in {j \in 1..Len(store) :
        store[j].customerName.t = "string" /\ store[j].customerName.s # Empty}}

Frequency(name) ==
    Cardinality({i \in 1..Len(store) : store[i].customerName = Str(name)})

RECURSIVE SumCounts(_)
SumCounts(entries) ==
    IF entries = <<>> THEN 0 ELSE Head(entries).count + SumCounts(Tail(entries))

\* C8 as stated: GET /api/customers returns one entry per distinct non-empty
\* customerName in the store, each once, with its frequency as count, in
\* ascending order; the counts sum to the number of records that have a
\* non-empty customerName.
C8_Original ==
    \A c \in {"c1"} :
        LET k  == conn[c]
            cs == k.resp.customers
        IN  Served200(k, "customers") =>
                /\ k.resp.ok /\ k.resp.status = 200
                /\ k.resp.keys = {"ok", "customers"}
                /\ {cs[i].customerName : i \in 1..Len(cs)} = StoredNames
                /\ Len(cs) = Cardinality(StoredNames)
                /\ \A i \in 1..Len(cs) : cs[i].count = Frequency(cs[i].customerName)
                /\ \A i \in 1..(Len(cs) - 1) :
                        localeCompare(cs[i].customerName, cs[i + 1].customerName) < 0
                /\ SumCounts(cs) =
                        Cardinality({i \in 1..Len(store) :
                            store[i].customerName.t = "string"
                            /\ store[i].customerName.s # Empty})

\* the records whose customerName, trimmed, is name
NamedTrimmed(name) ==
    {i \in 1..Len(store) :
        store[i].customerName.t = "string" /\ Trim(store[i].customerName.s) = name}

\* the customer names in the store, trimmed, the empty one left out
TrimmedNames ==
    {Trim(store[i].customerName.s) : i \in {j \in 1..Len(store) :
        store[j].customerName.t = "string"
        /\ Trim(store[j].customerName.s) # Empty}}

\* C8 amended: the names are compared after trimming. GET /api/customers
\* returns one entry per distinct trimmed customerName that is not empty, each
\* once, with the number of records whose trimmed name it is as count, in
\* ascending order; the counts sum to the number of records whose trimmed
\* customerName is not empty.
C8_Amended ==
    \A c \in {"c1"} :
        LET k  == conn[c]
            cs == k.resp.customers
        IN  Served200(k, "customers") =>
                /\ k.resp.ok /\ k.resp.status = 200
                /\ k.resp.keys = {"ok", "customers"}
                /\ {cs[i].customerName : i \in 1..Len(cs)} = TrimmedNames
                /\ Len(cs) = Cardinality(TrimmedNames)
                /\ \A i \in 1..Len(cs) :
                        cs[i].count = Cardinality(NamedTrimmed(cs[i].customerName))
                /\ \A i \in 1..(Len(cs) - 1) :
                        localeCompare(cs[i].customerName, cs[i + 1].customerName) < 0
                /\ SumCounts(cs) =
                        Cardinality(UNION {NamedTrimmed(n) : n \in TrimmedNames})

\* C8 witness: a record named " a" by hand and a record a created through the
\* worker; the summary has the one entry a, with count 2
C8_Witness ==
    LET k == conn["c1"]
    IN  /\ Served200(k, "customers")
        /\ Len(k.resp.customers) = 1
        /\ k.resp.customers[1].customerName = <<"a">>
        /\ k.resp.customers[1].count = 2
        /\ \E i, j \in 1..Len(store) :
                /\ store[i].customerName = Str(<<" ", "a">>)
                /\ store[j].customerName = Str(<<"a">>)

\* the store answered a list, create or delete with a non-2xx status
UpstreamFailed(k) ==
    k.phase = "done" /\ k.then \in {"list", "create", "delete"} /\ ~IsOk(k.up.status)

\* C9 as stated: the response to an upstream failure has the store's status and
\* the body {ok:false, error:b}, b being the parsed value when the store's body
\* is JSON and the raw text otherwise.
C9_Original ==
    \A c \in {"c1"} :
        LET k == conn[c]
        IN  UpstreamFailed(k) =>
                /\ k.resp.kind = "json" /\ k.resp.status = k.up.status
                /\ k.resp.keys = {"ok", "error"} /\ ~k.resp.ok
                /\ k.resp.error =
                        IF k.up.text.t = "json" THEN k.up.text.data
                        ELSE DataString(k.up.text.s)

\* C9 amended: as stated for a non-empty body; an empty body gives error null.
C9_Amended ==
    \A c \in {"c1"} :
        LET k == conn[c]
        IN  UpstreamFailed(k) =>
                /\ k.resp.kind = "json" /\ k.resp.status = k.up.status
                /\ k.resp.keys = {"ok", "error"} /\ ~k.resp.ok
                /\ k.resp.error =
                        CASE k.up.text.t = "json"  -> k.up.text.data
                          [] k.up.text.t = "raw"   -> DataString(k.up.text.s)
                          [] k.up.text.t = "empty" -> DataNull

\* C9 witness: the delete of an identifier the store does not hold
C9_Witness ==
    LET k == conn["c1"]
    IN  /\ UpstreamFailed(k) /\ k.then = "delete" /\ ~k.up.injected
        /\ k.resp.status = 404
        /\ k.resp.error = DataObject("{message}")

(***************************************************************************)
(* SpecFail: list, create, delete and the customer summary against a store *)
(* that may fail every call                                                *)
(***************************************************************************)
InitFail ==
    /\ InitCommon
    /\ env = EnvFull
    /\ store = Seeded(MaxIds - 1)
    /\ nextId = MaxIds - 1

NextFail ==
    \/ PostItems("c1", {JsonObject(GoodFields(<<"a">>, <<"x">>))})
    \/ GetItems("c1", {NoQuery, Query(Str(<<"a">>), Null, Null)})
    \/ DeleteItem("c1", StoreIds)
    \/ GetCustomers("c1")
    \/ StoreReplies("c1")
    \/ StoreFails("c1", FailStatuses, FailTexts)

SpecFail == InitFail /\ [][NextFail]_vars

(***************************************************************************)
(* SpecRoute: every method on every path, in every deployment              *)
(***************************************************************************)
Methods == {"GET", "POST", "DELETE", "PUT"}

Paths ==
    {PathRoot,
     PathItems,
     PathItems \o <<"/">> \o IdOf(0),
     PathCustomers,
     PathItems \o <<"f", "o", "o">>,
     PathCustomers \o <<"/", "x">>,
     PathApi \o <<"o", "t", "h", "e", "r">>,
     <<"/", "o", "t", "h", "e", "r">>}

Tokens == {Null, Str(Secret), Str(<<"n", "o">>)}

RouteBodies == {NoBody, JsonObject(GoodFields(<<"a">>, <<"x">>))}

\* deployments: the shared secret set or not; the store settings complete or
\* one of them missing
RouteEnvs ==
    {e \in Envs : Cardinality(MissingEnv(e, RequiredEnv)) <= 1}

InitRoute ==
    /\ InitCommon
    /\ env \in RouteEnvs
    /\ store = Seeded(MaxIds - 1)
    /\ nextId = MaxIds - 1

NextRoute ==
    \/ AnyRequest("c1", Methods, Paths, Tokens, RouteBodies)
    \/ StoreReplies("c1")
    \/ StoreFails("c1", {500}, {TextEmpty})

SpecRoute == InitRoute /\ [][NextRoute]_vars

\* a request whose path is under /api/
UnderApi(k) == k.phase # "idle" /\ StartsWith(k.req.pathname, PathApi)

\* C2: when the shared secret is configured, every request under /api/ whose
\* x-app-token header is absent or differs from the secret is answered with
\* 401, whatever its method and path, and reaches no handler (nothing is sent
\* to the store).
C2_TokenGate ==
    \A c \in Conns :
        LET k == conn[c]
        IN  (UnderApi(k) /\ env.APP_SHARED_TOKEN # Empty
                /\ k.req.token # Str(env.APP_SHARED_TOKEN)) =>
                /\ k.phase = "done"
                /\ k.resp.kind = "json" /\ k.resp.status = 401
                /\ ~Forwarded(k)

\* one of the four operations of the API: list, create, delete, customers
IsOperation(k) ==
    /\ k.phase # "idle"
    /\ \/ k.req.pathname = PathItems /\ k.req.method \in {"GET", "POST"}
       \/ k.req.pathname = PathItems \o <<"/">> \o IdOf(0)
            /\ k.req.method = "DELETE"
       \/ k.req.pathname = PathCustomers /\ k.req.method = "GET"

\* C10: when one of RESTDB_BASE, RESTDB_COLLECTION, RESTDB_API_KEY is absent,
\* every list, create, delete and customers request, with any body, is
\* answered with a 500-class JSON error: none ends in an uncaught exception
\* and none is answered with another status.
C10_Misconfigured ==
    \A c \in Conns :
        LET k == conn[c]
        IN  (IsOperation(k) /\ MissingEnv(env, RequiredEnv) # {}) =>
                /\ k.phase = "done"
                /\ k.resp.kind = "json"
                /\ k.resp.status >= 500 /\ k.resp.status <= 599
                /\ k.resp.keys = {"ok", "error"} /\ ~k.resp.ok

(***************************************************************************)
(* SpecNet: the four operations against a store that may be unreachable    *)
(***************************************************************************)
InitNet ==
    /\ InitCommon
    /\ env = EnvFull
    /\ store = Seeded(MaxIds - 1)
    /\ nextId = MaxIds - 1

NextNet ==
    \/ PostItems("c1", StoreBodies)
    \/ GetItems("c1", {NoQuery, Query(Str(<<"a">>), Null, Null)})
    \/ DeleteItem("c1", StoreIds)
    \/ GetCustomers("c1")
    \/ StoreReplies("c1")
    \/ StoreFails("c1", FailStatuses, {TextEmpty, TextJson(DataObject("{message}"))})
    \/ StoreThrows("c1")

SpecNet == InitNet /\ [][NextNet]_vars

\* C11: every request under /api/ ends in a response; every failure, the
\* upstream call failing at network level included, is caught and answered
\* with the envelope {ok:false, error}: no request ends in an exception.
C11_Caught ==
    \A c \in Conns :
        LET k == conn[c]
        IN  (UnderApi(k) /\ k.phase = "done") =>
                /\ k.resp.kind = "json"
                /\ ~k.resp.ok => k.resp.keys = {"ok", "error"}

(***************************************************************************)
(* SpecPaths: every method on every path, in a complete deployment         *)
(***************************************************************************)
MorePaths ==
    Paths \cup
    {PathApi,
     PathItems \o <<"/">>,
     PathItems \o <<"/">> \o IdOf(0) \o <<"/", "x">>,
     PathItems \o <<"f", "o", "o", "/">> \o IdOf(0)}

InitPaths ==
    /\ InitCommon
    /\ env = EnvFull
    /\ store = Seeded(MaxIds - 1)
    /\ nextId = MaxIds - 1

NextPaths ==
    \/ AnyRequest("c1", Methods \cup {"HEAD", "PATCH"}, MorePaths, {Null},
                  RouteBodies)
    \/ StoreReplies("c1")
    \/ StoreFails("c1", {500}, {TextEmpty})

SpecPaths == InitPaths /\ [][NextPaths]_vars

\* the path is /api/items/<id>, one non-empty segment after /api/items/
IsItemPath(p) ==
    /\ StartsWith(p, PathItems \o <<"/">>)
    /\ Len(p) > Len(PathItems) + 1
    /\ \A i \in (Len(PathItems) + 2)..Len(p) : p[i] # "/"

\* the routes the API defines
KnownPath(p) == p = PathItems \/ IsItemPath(p) \/ p = PathCustomers

\* C12: every request under /api/ whose path is neither /api/items,
\* /api/items/<id> nor /api/customers is answered with the not-found error
\* (404) and is never handled as a list, create or delete: nothing is sent to
\* the store.
C12_NotFound ==
    \A c \in Conns :
        LET k == conn[c]
        IN  (UnderApi(k) /\ ~KnownPath(k.req.pathname)) =>
                /\ k.phase = "done"
                /\ k.resp.kind = "json" /\ k.resp.status = 404
                /\ ~Forwarded(k)

\* a method the route of this path does not define
WrongMethod(k) ==
    \/ k.req.pathname = PathItems /\ k.req.method \notin {"GET", "POST"}
    \/ IsItemPath(k.req.pathname) /\ k.req.method # "DELETE"
    \/ k.req.pathname = PathCustomers /\ k.req.method # "GET"

MethodNotAllowed(k) ==
    /\ k.phase = "done"
    /\ k.resp.kind = "json" /\ k.resp.status = 405
    /\ k.resp.keys = {"ok", "error"} /\ ~k.resp.ok
    /\ k.resp.error = Message("Method not allowed")

\* C13: on a known path, every method other than the one the route defines is
\* answered with 405 method-not-allowed and nothing is sent to the store:
\* anything but GET or POST on /api/items, anything but DELETE on
\* /api/items/<id>, anything but GET on /api/customers.  (On the item paths
\* the collection setting is read first; the statement is for deployments that
\* have it.)
C13_MethodNotAllowed ==
    \A c \in Conns :
        LET k == conn[c]
        IN  (k.phase # "idle" /\ WrongMethod(k)
                /\ (k.req.pathname = PathCustomers \/ env.RESTDB_COLLECTION # Empty)) =>
                    MethodNotAllowed(k) /\ ~Forwarded(k)

\* C13 witness: a GET on /api/items/<id> and refused, in a deployment that
\* lacks the store's address
C13_Witness ==
    LET k == conn["c1"]
    IN  /\ k.req.method = "GET" /\ IsItemPath(k.req.pathname)
        /\ env.RESTDB_BASE = Empty
        /\ MethodNotAllowed(k)

(***************************************************************************)
(* SpecPage: the route / in every deployment, in the revision the API is   *)
(* modelled from and in the revision src/_worker.js                        *)
(***************************************************************************)
InitPage ==
    /\ InitCommon
    /\ env \in Envs
    /\ store = <<>>
    /\ nextId = 0

NextPage ==
    \/ AnyRequest("c1", Methods, {PathRoot}, Tokens, {NoBody})
    \/ GetPage_worker("c1")

SpecPage == InitPage /\ [][NextPage]_vars

\* the three security headers of the page
SecurityHeaders ==
    {<<"content-security-policy",
       "frame-ancestors https://packetfusioncrm.crm.dynamics.com;">>,
     <<"x-content-type-options", "nosniff">>,
     <<"referrer-policy", "strict-origin-when-cross-origin">>}

\* C14: a GET request to / always yields the HTML page with the three
\* security headers (frame-ancestors limited to the Dynamics origin, nosniff,
\* strict-origin-when-cross-origin); rendering the page never throws, in any
\* deployment.
C14_Page ==
    \A c \in Conns :
        LET k == conn[c]
        IN  (k.phase # "idle" /\ k.req.pathname = PathRoot /\ k.req.method = "GET") =>
                /\ k.phase = "done"
                /\ k.resp.kind = "html" /\ k.resp.status = 200
                /\ SecurityHeaders \subseteq k.resp.headers

\* the record as the worker sent it, before the store gave it an identifier
Unnamed(d) == [d EXCEPT !._id = Empty]

\* the request on connection c finishes in this step, through handler then
Finishes(c, then) ==
    /\ conn[c].phase = "upstream" /\ conn[c].then = then
    /\ conn'[c].phase = "done" /\ conn'[c].resp.ok

\* C15: there is no update path.  In every step, a record that is in the
\* store before and after has the same identifier and field values; the store
\* changes only by one record being added, by a create that succeeds (the
\* record the worker sent, under a new identifier), or by the one record
\* named in the path being removed, by a delete that succeeds; GET /api/items
\* and GET /api/customers leave the store as it is.
C15_NoUpdate ==
    [][ /\ \A i \in 1..Len(store), j \in 1..Len(store') :
                store[i]._id = store'[j]._id => store[i] = store'[j]
        /\ store' # store =>
            \E c \in Conns :
                \/ /\ Finishes(c, "create")
                   /\ Len(store') = Len(store) + 1
                   /\ SubSeq(store', 1, Len(store)) = store
                   /\ ~HasDoc(store, store'[Len(store')]._id)
                   /\ Unnamed(store'[Len(store')]) = conn[c].call.doc
                \/ /\ Finishes(c, "delete")
                   /\ Len(store') = Len(store) - 1
                   /\ HasDoc(store, PathId(conn[c].req))
                   /\ store' = RemoveDoc(store, PathId(conn[c].req))
        /\ \A c \in Conns :
                (Finishes(c, "list") \/ Finishes(c, "customers")) => store' = store
      ]_vars

\* C15 witness: a record created and deleted, another created before it still
\* in the store, and a list served since
C15_Witness ==
    LET k == conn["c1"]
    IN  /\ Served200(k, "list")
        /\ hist.deleted # {}
        /\ \E i \in 1..Len(store) :
                /\ store[i]._id \in hist.created
                /\ \A d \in hist.deleted : store[i]._id # d

(***************************************************************************)
(* SpecRace: two clients creating records for the same customer at once    *)
(***************************************************************************)
RaceBodies ==
    {JsonObject(GoodFields(<<"a">>, <<"x">>)),
     JsonObject(GoodFields(<<"a", " ">>, <<"y">>))}

InitRace ==
    /\ InitCommon
    /\ env = EnvFull
    /\ store = <<>>
    /\ nextId = 0

NextRace ==
    \/ \E c \in Conns : PostItems(c, RaceBodies)
    \/ \E c \in Conns : StoreReplies(c)
    \/ \E c \in Conns : StoreFails(c, {500}, {TextEmpty})

SpecRace == InitRace /\ [][NextRace]_vars

\* the record without the instants the worker stamped on it
Unstamped(d) == [d EXCEPT !.createdAt = 0, !.updatedAt = 0]

\* the create on this connection was served by the store
CreateServed(k) ==
    k.phase = "done" /\ k.then = "create" /\ ~k.up.injected

\* C16: two valid creates for the same customerName, handled concurrently in
\* any interleaving, both succeed and leave two distinct records.  Each valid
\* create is forwarded to the store whatever the other connection does; the
\* record it sends is the one its own body gives; when the store serves it,
\* the answer is 200 with that record under its identifier, and the record
\* is in the store; two served creates have distinct identifiers.
C16_Independent ==
    /\ \A c \in Conns :
        LET k == conn[c]
            f == BodyFields(k.req.body)
        IN  /\ IsCreate(k) =>
                /\ Forwarded(k)
                /\ Unstamped(k.call.doc) =
                     Unstamped(BuildDoc(f, Number(f.technicalFit),
                                        Number(f.functionalFit), 0))
            /\ CreateServed(k) =>
                /\ k.resp.ok /\ k.resp.status = 200
                /\ k.resp.item.t = "doc"
                /\ Unnamed(k.resp.item.doc) = k.call.doc
                /\ \E i \in 1..Len(store) : store[i] = k.resp.item.doc
    /\ \A c, d \in Conns :
        (c # d /\ CreateServed(conn[c]) /\ CreateServed(conn[d])) =>
            conn[c].resp.item.doc._id # conn[d].resp.item.doc._id

\* C16 witness: c1's create arrived first and c2's was served first; both
\* records, for customer a, are in the store
C16_Witness ==
    /\ CreateServed(conn["c1"]) /\ CreateServed(conn["c2"])
    /\ conn["c1"].resp.item.doc.createdAt < conn["c2"].resp.item.doc.createdAt
    /\ conn["c2"].resp.item.doc._id = IdOf(0)
    /\ conn["c1"].resp.item.doc._id = IdOf(1)
    /\ conn["c1"].resp.item.doc.customerName = Str(<<"a">>)
    /\ conn["c2"].resp.item.doc.customerName = Str(<<"a">>)
    /\ Len(store) = 2

(***************************************************************************)
(* SpecForm: the page's form, its preview and its Save button              *)
(***************************************************************************)
\* the value of a hidden rating input: set from a button (1, 3, 4, 5 of the
\* five), read as "" by val() when the element is missing, or not a number
FormRatings ==
    {Str(<<"1">>), Str(<<"3">>), Str(<<"4">>), Str(<<"5">>),
     Str(Empty), Str(<<"a", "b", "c">>)}

\* saveBtn: the payload is built from the form, the ratings as
\* Number(val(...)), and posted
SaveForm(c) ==
    /\ probe.applied
    /\ nextId < MaxIds
    /\ \E now \in Nows :
        Receive(c,
            Request("POST", PathItems, Null, NoQuery,
                JsonObject(Fields(JsonNumber(Number(probe.technicalFit)),
                                  JsonNumber(Number(probe.functionalFit)),
                                  Str(<<"a">>), Str(<<"x">>), Str(<<"s">>)))),
            now)

InitForm ==
    /\ InitCommon
    /\ env = EnvFull
    /\ store = Seeded(MaxIds - 1)
    /\ nextId = MaxIds - 1

NextForm ==
    \/ Classify(FormRatings)
    \/ SaveForm("c1")
    \/ StoreReplies("c1")
    \/ StoreFails("c1", {500}, {TextEmpty})

SpecForm == InitForm /\ [][NextForm]_vars

\* C17: the classification function of the page's script and the one of the
\* worker return the same (code, label) for every pair of inputs; so the
\* preview shown for the ratings of the form equals the timeCode and
\* timeLabel persisted for a record created with those ratings.
C17_PreviewAgrees ==
    /\ probe.applied => probe.preview = probe.time
    /\ \A c \in Conns :
        LET k == conn[c]
        IN  (probe.applied /\ CreateServed(k) /\ k.resp.ok
                /\ k.req.body.f.technicalFit = JsonNumber(Number(probe.technicalFit))
                /\ k.req.body.f.functionalFit = JsonNumber(Number(probe.functionalFit))) =>
                    /\ k.resp.item.doc.timeCode = probe.preview.code
                    /\ k.resp.item.doc.timeLabel = probe.preview.label

\* C17 witness: the form shows Migrate for (3, 4) and the record saved from it
\* is stored as Migrate
C17_Witness ==
    LET k == conn["c1"]
    IN  /\ probe.applied
        /\ probe.technicalFit = Str(<<"3">>) /\ probe.functionalFit = Str(<<"4">>)
        /\ probe.preview = [code |-> "M", label |-> "Migrate"]
        /\ CreateServed(k) /\ k.resp.ok
        /\ k.req.body.f.technicalFit = Num(Int2Num(3))
        /\ k.resp.item.doc.timeCode = "M"

(***************************************************************************)
(* SpecFields: creates whose body varies in every field                    *)
(***************************************************************************)
\* const categories = [...] of htmlPage: the options of the page's category
\* selects
categories ==
    {<<"U", "C", "/", "U", "C", "a", "a", "S">>,
     <<"A", "I">>,
     <<"P", "S", "T", "N", "/", "P", "O", "T", "S">>,
     <<"P", "h", "y", "s", "i", "c", "a", "l", " ", "I", "n", "f",
       "r", "a", "s", "t", "r", "u", "c", "t", "u", "r", "e", "/",
       "I", "a", "a", "S">>,
     <<"B", "a", "c", "k", "u", "p", "/", "B", "a", "a", "S">>,
     <<"D", "R", "/", "D", "R", "a", "a", "S">>,
     <<"M", "S", "P">>,
     <<"P", "h", "y", "s", "i", "c", "a", "l", " ", "S", "e", "c",
       "u", "r", "i", "t", "y">>,
     <<"C", "y", "b", "e", "r", " ", "S", "e", "c", "u", "r", "i",
       "t", "y">>,
     <<"W", "A", "N", "/", "S", "D", "-", "W", "A", "N", "/", "S",
       "A", "S", "E">>,
     <<"T", "E", "M", " ", "(", "t", "e", "c", "h", "n", "o", "l",
       "o", "g", "y", " ", "e", "x", "p", "e", "n", "s", "e", " ",
       "m", "a", "n", "a", "g", "e", "m", "e", "n", "t", ")">>,
     <<"M", "i", "s", "c", "e", "l", "l", "a", "n", "e", "o", "u",
       "s", " ", "P", "r", "o", "j", "e", "c", "t", "s">>}

AllFields(tf, ff, cat, cid, ven, nts, di, ce) ==
    [Fields(tf, ff, Str(<<" ", "a">>), cat, Str(<<"s", " ">>)) EXCEPT
        !.customerId = cid, !.vendor = ven, !.notes = nts,
        !.dateImplemented = di, !.contractExpiration = ce]

\* values an optional field may carry
OptionalValues ==
    {Undefined, Null, Str(Empty), Str(<<" ">>), Str(<<" ", "v", "\t">>),
     Num(Int2Num(7))}

\* ratings the range check lets through, and one it does not
FieldRatings ==
    {Five, Two, Num(Dec(2, <<"5">>)), Str(<<" ", "3", " ">>),
     Str(<<"4", ".", "5">>), Bool(TRUE), Num(Int2Num(6))}

FieldBodies ==
    \* the ratings varied
    {JsonObject(AllFields(tf, ff, Str(<<"A", "I">>), Undefined, Undefined,
                          Undefined, Undefined, Undefined)) :
        tf \in FieldRatings, ff \in {Five, Num(Dec(2, <<"5">>))}}
    \cup
    \* the category varied: of the list, of the list with blanks around, not
    \* of the list
    {JsonObject(AllFields(Five, Two, Str(cat), Undefined, Undefined, Undefined,
                          Undefined, Undefined)) :
        cat \in {<<"M", "S", "P">>, <<" ", "A", "I", " ">>, <<"a", "i">>,
                 <<"z", "z", "z">>}}
    \cup
    \* the optional fields varied, two at a time
    {JsonObject(AllFields(Five, Two, Str(<<"A", "I">>), v, w, v, w, v)) :
        v \in OptionalValues, w \in OptionalValues}

InitFields ==
    /\ InitCommon
    /\ env = EnvFull
    /\ store = Seeded(MaxIds - 1)
    /\ nextId = MaxIds - 1

NextFields ==
    \/ PostItems("c1", FieldBodies)
    \/ StoreReplies("c1")
    \/ StoreFails("c1", {500}, {TextEmpty})

SpecFields == InitFields /\ [][NextFields]_vars

\* C18: every record created through POST /api/items has a category that is
\* one of the 12 values of the list; a create whose category is any other
\* non-empty string is not persisted (it is not sent to the store).
C18_CategoryListed ==
    \A c \in Conns :
        LET k == conn[c]
        IN  (IsCreate(k) /\ Forwarded(k)) => k.call.doc.category \in categories

\* C19: every record created through POST /api/items has technicalFit and
\* functionalFit that are integers in 1..5; a rating such as 2.5 is not
\* persisted.
C19_IntegerRatings ==
    \A c \in Conns :
        LET k == conn[c]
            d == k.call.doc
        IN  (IsCreate(k) /\ Forwarded(k)) =>
                /\ IsInteger(d.technicalFit) /\ d.technicalFit.i \in 1..5
                /\ IsInteger(d.functionalFit) /\ d.functionalFit.i \in 1..5

\* the submitted value as a string (absent and null: the empty string)
Submitted(v) == IF v.t \in {"undefined", "null"} THEN Empty ELSE String(v)

\* t is s without the white space at its two ends
IsTrimOf(t, s) ==
    /\ t # Empty => (t[1] \notin WhiteSpace /\ t[Len(t)] \notin WhiteSpace)
    /\ \E a \in 0..Len(s) :
            /\ a + Len(t) <= Len(s)
            /\ SubSeq(s, a + 1, a + Len(t)) = t
            /\ \A i \in 1..Len(s) :
                    (i <= a \/ i > a + Len(t)) => s[i] \in WhiteSpace

\* the stored value of a field that is null when nothing was submitted
TrimOrNull(x, v) ==
    IF \A i \in 1..Len(Submitted(v)) : Submitted(v)[i] \in WhiteSpace
    THEN x = Null
    ELSE x.t = "string" /\ IsTrimOf(x.s, Submitted(v))

\* C20: in the record sent to the store by a create, every string field is
\* the trimmed form of the submitted value; an absent or empty vendor or
\* notes becomes the empty string, and an absent or empty customerId,
\* dateImplemented or contractExpiration becomes null.
C20_Trimmed ==
    \A c \in Conns :
        LET k == conn[c]
            f == BodyFields(k.req.body)
            d == k.call.doc
        IN  (IsCreate(k) /\ Forwarded(k)) =>
                /\ d.customerName.t = "string"
                /\ IsTrimOf(d.customerName.s, Submitted(f.customerName))
                /\ IsTrimOf(d.category, Submitted(f.category))
                /\ IsTrimOf(d.solution, Submitted(f.solution))
                /\ IsTrimOf(d.vendor, Submitted(f.vendor))
                /\ IsTrimOf(d.notes, Submitted(f.notes))
                /\ TrimOrNull(d.customerId, f.customerId)
                /\ TrimOrNull(d.dateImplemented, f.dateImplemented)
                /\ TrimOrNull(d.contractExpiration, f.contractExpiration)

\* C20 witness: a create served with a padded vendor, blank notes and a blank
\* customerId
C20_Witness ==
    LET k == conn["c1"]
        f == BodyFields(k.req.body)
    IN  /\ CreateServed(k) /\ k.resp.ok
        /\ f.vendor = Str(<<" ", "v", "\t">>) /\ k.call.doc.vendor = <<"v">>
        /\ f.notes = Str(<<" ">>) /\ k.call.doc.notes = Empty
        /\ f.customerId = Str(<<" ">>) /\ k.call.doc.customerId = Null
        /\ k.call.doc.customerName = Str(<<"a">>)

(***************************************************************************)
(* SpecList: GET /api/items against a store whose 2xx answer may carry a   *)
(* body that is empty, not JSON, or JSON that is not an array              *)
(***************************************************************************)
OddTexts ==
    {TextEmpty,
     TextRaw(<<"o", "k">>),
     TextJson(DataObject("{result}")),
     TextJson(DataNull),
     TextJson(DataDoc(SeedDoc(0)))}

InitList ==
    /\ InitCommon
    /\ env = EnvFull
    /\ store = Seeded(MaxIds - 1)
    /\ nextId = MaxIds - 1

NextList ==
    \/ PostItems("c1", StoreBodies)
    \/ GetItems("c1", StoreQueries)
    \/ StoreReplies("c1")
    \/ StoreFails("c1", {200, 204}, OddTexts)

SpecList == InitList /\ [][NextList]_vars

\* C21: a GET /api/items the store answered with a 2xx status is answered
\* 200 {ok:true, items:X}, X being the array of the store's body (the matching
\* records when the store served the call, the empty array when none match)
\* and the empty array when that body is empty or is not an array.
C21_AlwaysArray ==
    \A c \in {"c1"} :
        LET k == conn[c]
        IN  (k.phase = "done" /\ k.then = "list" /\ IsOk(k.up.status)) =>
                /\ k.resp.kind = "json" /\ k.resp.status = 200
                /\ k.resp.ok /\ k.resp.keys = {"ok", "items"}
                /\ k.resp.items =
                        IF k.up.text.t = "json" /\ k.up.text.data.t = "array"
                        THEN k.up.text.data.docs
                        ELSE <<>>
                /\ ~k.up.injected =>
                        {k.resp.items[i] : i \in 1..Len(k.resp.items)} =
                            Expected(Trimmed(k.req.query.customerName),
                                IF Trimmed(k.req.query.customerName) = Undefined
                                THEN Trimmed(k.req.query.customerId)
                                ELSE Undefined,
                                Trimmed(k.req.query.category))

\* C21 witness: the store answers 200 with a single JSON object, and the list
\* is empty although the store holds a record
C21_Witness ==
    LET k == conn["c1"]
    IN  /\ k.phase = "done" /\ k.then = "list" /\ k.up.injected
        /\ k.up.status = 200
        /\ k.up.text = TextJson(DataDoc(SeedDoc(0)))
        /\ k.resp.ok /\ k.resp.items = <<>>
        /\ store # <<>>

(***************************************************************************)
(* SpecOrder: POST /api/items with bodies that carry several defects at    *)
(* once                                                                    *)
(***************************************************************************)
OrderBodies ==
    {JsonObject(Fields(tf, ff, cn, cat, sol)) :
        tf \in {Five, Num(Int2Num(0)), Undefined},
        ff \in {Two, Num(Int2Num(6)), Str(<<"a", "b", "c">>)},
        cn \in {Str(<<"a">>), Str(<<" ">>)},
        cat \in {Str(<<"x">>), Str(Empty)},
        sol \in {Str(<<"s">>), Null}}
    \cup
    {NoBody, JsonValue(Null), JsonValue(Num(Int2Num(0))), JsonValue(Str(Empty)),
     JsonValue(Bool(FALSE)), JsonValue(Five), JsonValue(Bool(TRUE))}

InitOrder ==
    /\ InitCommon
    /\ env = EnvFull
    /\ store = Seeded(MaxIds - 1)
    /\ nextId = MaxIds - 1

NextOrder ==
    \/ PostItems("c1", OrderBodies)
    \/ StoreReplies("c1")

SpecOrder == InitOrder /\ [][NextOrder]_vars

\* the body did not parse, or parsed to a falsy JSON value
Unusable(body) ==
    \/ body.kind = "invalid"
    \/ body.kind = "value"
        /\ body.v \in {Null, Bool(FALSE), Num(Int2Num(0)), Str(Empty)}

\* C27: POST /api/items reports only the first failure, in the order: body
\* unparseable or falsy (400 "Invalid JSON body"), technicalFit invalid,
\* functionalFit invalid, a required string missing; a body with none of
\* these is forwarded to the store.
C27_FirstFailure ==
    \A c \in {"c1"} :
        LET k == conn[c]
            f == IF k.req.body.kind = "object" THEN k.req.body.f ELSE NoFields
            blank == Blank(f.customerName) \/ Blank(f.category) \/ Blank(f.solution)
        IN  (k.phase \in {"upstream", "done"} /\ k.req.method = "POST"
                /\ k.req.pathname = PathItems) =>
            IF Unusable(k.req.body)
            THEN Rejected(k, "Invalid JSON body") /\ ~Forwarded(k)
            ELSE IF ~InRange(f.technicalFit)
            THEN Rejected(k, "technicalFit must be 1-5") /\ ~Forwarded(k)
            ELSE IF ~InRange(f.functionalFit)
            THEN Rejected(k, "functionalFit must be 1-5") /\ ~Forwarded(k)
            ELSE IF blank
            THEN /\ Rejected(k, "customerName, category, and solution are required")
                 /\ ~Forwarded(k)
            ELSE Forwarded(k) /\ (k.phase = "done" => k.resp.status # 400)

\* C27 witness: a body with an invalid functionalFit and two blank required
\* strings is answered with the functionalFit message
C27_Witness ==
    LET k == conn["c1"]
    IN  /\ k.phase = "done" /\ k.req.body.kind = "object"
        /\ k.req.body.f.technicalFit = Five
        /\ k.req.body.f.functionalFit = Num(Int2Num(6))
        /\ k.req.body.f.customerName = Str(<<" ">>)
        /\ k.req.body.f.solution = Null
        /\ Rejected(k, "functionalFit must be 1-5")

(***************************************************************************)
(* SpecReject: requests the worker refuses itself, and requests the store  *)
(* refuses                                                                 *)
(***************************************************************************)
RejectPaths ==
    {PathItems,
     PathItems \o <<"/">> \o IdOf(0),
     PathItems \o <<"/", "f", "f">>,
     PathCustomers,
     PathApi \o <<"x">>}

RejectBodies ==
    {NoBody,
     JsonObject(GoodFields(<<"a">>, <<"x">>)),
     JsonObject(Fields(Num(Int2Num(6)), Two, Str(<<"a">>), Str(<<"x">>), Str(<<"s">>))),
     JsonObject(Fields(Five, Two, Str(<<"a">>), Str(<<"x">>), Null))}

InitReject ==
    /\ InitCommon
    /\ env = EnvFull
    /\ store = Seeded(MaxIds - 1)
    /\ nextId = MaxIds - 1

NextReject ==
    \/ AnyRequest("c1", Methods, RejectPaths, {Null}, RejectBodies)
    \/ StoreReplies("c1")
    \/ StoreFails("c1", {400, 401, 500}, {TextJson(DataObject("{message}"))})

SpecReject == InitReject /\ [][NextReject]_vars

ClientErrors == {400, 401, 404, 405}

\* C26 as stated: a request answered 400, 401, 404 or 405 made no call to the
\* store.
C26_Original ==
    \A c \in {"c1"} :
        LET k == conn[c]
        IN  (k.phase = "done" /\ k.resp.kind = "json"
                /\ k.resp.status \in ClientErrors) => ~Forwarded(k)

\* C26 amended: a request answered 400, 401, 404 or 405 leaves the store
\* unchanged; it made no call to the store when the status is the worker's
\* own, and when a call was made the status is the one the store refused the
\* call with.
C26_Amended ==
    [][\A c \in {"c1"} :
        LET k == conn'[c]
        IN  (conn[c] # k /\ k.phase = "done" /\ k.resp.kind = "json"
                /\ k.resp.status \in ClientErrors) =>
                /\ store' = store
                /\ nextId' = nextId
                /\ Forwarded(k) =>
                        (k.up.status = k.resp.status /\ ~IsOk(k.up.status))]_vars

\* C26 witness: the delete of an identifier the store does not hold is
\* answered 404 after the store was called, and the store still holds its
\* record
C26_Witness ==
    LET k == conn["c1"]
    IN  /\ k.phase = "done" /\ k.req.method = "DELETE"
        /\ k.resp.status = 404 /\ Forwarded(k) /\ ~k.up.injected
        /\ k.up.status = 404
        /\ store = Seeded(MaxIds - 1)

(***************************************************************************)
(* SpecSeg: the rating buttons, the preview and Reset                      *)
(***************************************************************************)
\* the store a page is opened against: one record of the customer "a b"
PageStore ==
    [k \in 1..(MaxIds - 1) |->
        [SeedDoc(k - 1) EXCEPT !.customerName = Str(<<"a", " ", "b">>),
                               !.customerId = Null]]

InitSeg ==
    /\ InitCommon
    /\ env = EnvFull
    /\ store = PageStore
    /\ nextId = MaxIds - 1

NextSeg ==
    \/ PageLoad({Empty})
    \/ PageTimer("c1")
    \/ StoreReplies("c1")
    \/ PageResume("c1")
    \/ ClickRating("techSeg")
    \/ ClickRating("funcSeg")
    \/ TypeSolution({Empty, <<"s">>})
    \/ ClickReset

SpecSeg == InitSeg /\ [][NextSeg]_vars

\* the rating of a button, as a number
RatingOf(v) == DigitVal(v[1])

\* C28: once the script has run, after any clicks on rating buttons and on
\* Reset, both hidden ratings are in 1..5, in each group exactly the button of
\* the hidden rating is active, and the preview is the quadrant of the two
\* ratings (threshold 4); right after Reset both ratings are 5 and the preview
\* is (I, Invest).
C28_Preview ==
    page.loaded =>
        /\ page.technicalFit \in Buttons /\ page.functionalFit \in Buttons
        /\ page.techActive = {page.technicalFit}
        /\ page.funcActive = {page.functionalFit}
        /\ LET techHigh == RatingOf(page.technicalFit) >= 4
               funcHigh == RatingOf(page.functionalFit) >= 4
           IN  <<page.timeCode, page.timeLabel>> =
                    IF techHigh /\ funcHigh THEN <<"I", "Invest">>
                    ELSE IF funcHigh THEN <<"M", "Migrate">>
                    ELSE IF techHigh THEN <<"T", "Tolerate">>
                    ELSE <<"E", "Eliminate">>
        /\ page.event = "resetBtn" =>
                /\ page.technicalFit = <<"5">> /\ page.functionalFit = <<"5">>
                /\ page.timeCode = "I" /\ page.timeLabel = "Invest"

\* C28 witness: after a Reset (two listeners on the control), a click on the
\* technical rating 2 with the functional rating at 4 shows (M, Migrate)
C28_Witness ==
    /\ page.event = "techSeg" /\ page.techListeners = 2
    /\ page.technicalFit = <<"2">> /\ page.functionalFit = <<"4">>
    /\ page.techActive = {<<"2">>}
    /\ page.timeCode = "M" /\ page.timeLabel = "Migrate"

(***************************************************************************)
(* SpecPanel: the panel between the customer list and the records of one   *)
(* customer                                                                *)
(***************************************************************************)
Msp == <<"M", "S", "P">>

\* the records the panel is opened on: one of the customer "a b", in the
\* category MSP
PanelStore ==
    [k \in 1..(MaxIds - 1) |-> [PageStore[k] EXCEPT !.category = Msp]]

\* the query string of a shareable link
LinkSearch(name) ==
    KeyCustomerName \o <<"=">> \o encodeURIComponent(name)
    \o <<"&", "e", "m", "b", "e", "d", "=", "1">>

PanelNames == {Empty, <<" ">>, <<"a", " ", "b">>, <<"z">>}

InitPanel ==
    /\ InitCommon
    /\ env = EnvFull
    /\ store = PanelStore
    /\ nextId = MaxIds - 1

NextPanel ==
    \/ PageLoad({Empty, LinkSearch(<<"z">>)})
    \/ PageTimer("c1")
    \/ TypeName(PanelNames)
    \/ ChangeName("c1")
    \/ SelectFilter("c1", {Empty, Msp})
    \/ ClickRefresh("c1")
    \/ ClickOpen("c1")
    \/ ClickRefresh("c2")
    \/ StoreReplies("c1")
    \/ StoreReplies("c2")
    \/ PageResume("c1")
    \/ PageResume("c2")

SpecPanel == InitPanel /\ [][NextPanel]_vars

\* the stored records of the customer name, in the category when one is given
RecordsOf(name, category) ==
    {store[i]._id : i \in {j \in 1..Len(store) :
        /\ store[j].customerName = Str(name)
        /\ category # Empty => store[j].category = category}}

\* C22: a refresh that completed shows the panel in the mode of the customer
\* name it read: with no name (after trimming) it requested /api/customers and
\* the table lists the customers with their counts; with a name it requested
\* /api/items for that name (and the category filter when one is set) and the
\* table lists those records.  Open sets the customer name, and the refresh it
\* starts is one for the records of that customer.
C22_Modes ==
    /\ page.event = "open" =>
            /\ page.pend[page.evc].origin = "open"
            /\ page.pend[page.evc].await = "items"
            /\ page.pend[page.evc].name = page.customerName
            /\ page.customerName # Empty
    /\ \A c \in Conns :
            page.pend[c].origin = "open" => page.pend[c].await = "items"
    /\ (page.last.ok /\ page.last.await \in {"customers", "items"}) =>
        LET k == conn[page.last.c]
        IN  /\ page.last.await = "customers" <=> Trim(page.last.name) = Empty
            /\ page.last.await = "customers" =>
                /\ k.req.method = "GET" /\ k.req.pathname = PathCustomers
                /\ page.th = "browse" /\ page.rows = <<>>
                /\ {<<page.customers[i].open, page.customers[i].count>> :
                        i \in DOMAIN page.customers}
                   = {<<n, Frequency(n)>> : n \in StoredNames}
            /\ page.last.await = "items" =>
                /\ k.req.method = "GET" /\ k.req.pathname = PathItems
                /\ k.req.query.customerName = Str(page.last.name)
                /\ k.req.query.category =
                        IF page.last.category = Empty THEN Null
                        ELSE Str(page.last.category)
                /\ page.th = "item" /\ page.customers = <<>>
                /\ {page.rows[i].del : i \in DOMAIN page.rows}
                   = RecordsOf(page.last.name, page.last.category)

\* C22 witness: Open on the row of the customer "a b" has brought up that
\* customer's record
C22_Witness ==
    /\ page.last.ok /\ page.last.origin = "open"
    /\ page.customerName = <<"a", " ", "b">>
    /\ page.th = "item" /\ Len(page.rows) = 1

(***************************************************************************)
(* SpecLink: the shareable link through page load, edits of the customer   *)
(* name, Open, Save, Reset and Refresh                                     *)
(***************************************************************************)
LinkNames == {Empty, <<"z">>, <<"z", " ", "y">>}

InitLink ==
    /\ InitCommon
    /\ env = EnvFull
    /\ store = PanelStore
    /\ nextId = MaxIds - 1

NextLink ==
    \/ PageLoad({Empty, LinkSearch(<<"a", " ", "b">>)})
    \/ PageTimer("c1")
    \/ TypeName(LinkNames)
    \/ ChangeName("c1")
    \/ TypeSolution({Empty, <<"s">>})
    \/ ClickOpen("c1")
    \/ ClickSave("c1")
    \/ ClickReset
    \/ ClickRefresh("c1")
    \/ StoreReplies("c1")
    \/ PageResume("c1")

SpecLink == InitLink /\ [][NextLink]_vars

\* the link of the customer name
LinkOf(name) ==
    IF Trim(name) = Empty THEN Origin \o <<"/">>
    ELSE Origin \o <<"/", "?">> \o LinkSearch(Trim(name))

\* C23, read in the page's favour: once the first refresh has started, while
\* the customer name is not being edited and no request is in flight, the
\* shareable-link field is the link of the current customer name.
C23_InSync ==
    (Ready /\ ~page.editing /\ \A c \in Conns : page.pend[c].await = "")
        => page.crmLink = LinkOf(page.customerName)

(***************************************************************************)
(* SpecError: the page against a store that may fail and a network that    *)
(* may lose a request                                                      *)
(***************************************************************************)
InitError ==
    /\ InitCommon
    /\ env = EnvFull
    /\ store = PanelStore
    /\ nextId = MaxIds - 1

NextError ==
    \/ PageLoad({Empty, LinkSearch(<<"a", " ", "b">>)})
    \/ PageTimer("c1")
    \/ SelectFilter("c1", {Empty, Msp})
    \/ ClickRefresh("c1")
    \/ ClickOpen("c1")
    \/ StoreReplies("c1")
    \/ StoreFails("c1", {500}, {TextEmpty, TextJson(DataObject("{message}"))})
    \/ PageResume("c1")
    \/ PageNetFail("c1")

SpecError == InitError /\ [][NextError]_vars

\* C24: when an api call of the page has ended in a non-2xx response or in a
\* network failure, whichever handler started it, the inline error shows a
\* non-empty message.
C24_ErrorShown ==
    (page.last.c # "" /\ ~page.last.ok) => page.err # NoErr

(***************************************************************************)
(* SpecDelete: the Delete button of a row, while the store may fail and    *)
(* another client may delete the same record                               *)
(***************************************************************************)
InitDelete ==
    /\ InitCommon
    /\ env = EnvFull
    /\ store = PanelStore
    /\ nextId = MaxIds - 1

NextDelete ==
    \/ PageLoad({LinkSearch(<<"a", " ", "b">>)})
    \/ PageTimer("c1")
    \/ ClickRefresh("c1")
    \/ ClickDelete("c1")
    \/ StoreReplies("c1")
    \/ StoreFails("c1", {500}, {TextEmpty, TextJson(DataObject("{message}"))})
    \/ PageResume("c1")
    \/ PageNetFail("c1")
    \/ DeleteItem("c2", {IdOf(0)})
    \/ StoreReplies("c2")

SpecDelete == InitDelete /\ [][NextDelete]_vars

Refreshing(w) == w.await \in {"customers", "items"}

\* C30: a click on Delete sends DELETE /api/items/<id of the row> and nothing
\* else; the refresh of the delete handler is sent in the step in which the
\* 2xx response to that DELETE is taken up, and in no other; when the DELETE
\* fails (non-2xx response, or no response), the handler sends nothing, the
\* table keeps its rows and the error text is not empty.
C30_DeleteThenRefresh ==
    [][\A c \in {"c1"} :
        LET w  == page.pend[c]
            w2 == page'.pend[c]
        IN  /\ (w.await = "" /\ w2.await = "delete") =>
                /\ \E i \in DOMAIN page.rows :
                    /\ conn'[c].req.method = "DELETE"
                    /\ conn'[c].req.pathname =
                            PathItems \o <<"/">> \o page.rows[i].del
                    /\ w2.id = page.rows[i].del
                /\ page'.rows = page.rows
            /\ (w.await = "delete" /\ w2 # w) =>
                IF page'.last.ok
                THEN /\ conn[c].phase = "done" /\ IsOk(conn[c].resp.status)
                     /\ Refreshing(w2) /\ w2.origin = "delete"
                     /\ conn'[c].req.method = "GET"
                ELSE /\ w2.await = ""
                     /\ conn' = conn
                     /\ page'.rows = page.rows /\ page'.th = page.th
                     /\ page'.err # NoErr
            /\ (Refreshing(w2) /\ w2.origin = "delete" /\ w2 # w) =>
                /\ w.await = "delete"
                /\ conn[c].phase = "done" /\ IsOk(conn[c].resp.status)]_vars

\* C30 witness: the store refused the DELETE of a record another client had
\* deleted; the row is still in the table and the error is shown
C30_Witness ==
    /\ page.last.await = "delete" /\ ~page.last.ok
    /\ conn["c1"].resp.status = 404
    /\ page.pend["c1"].await = ""
    /\ page.th = "item" /\ Len(page.rows) = 1
    /\ page.err = DataObject("{message}")

\* C29: once no list request is in flight and the most recently issued
\* refresh has completed successfully, the table shows the response to that
\* refresh.
C29_LatestShown ==
    ((\A c \in Conns : ~Refreshing(page.pend[c])) /\ page.recent = "ok")
        => page.shown.latest

(***************************************************************************)
(* SpecDouble: Save clicked again while a save is in flight                *)
(***************************************************************************)
\* a store with room for two more records
DoubleStore == [k \in 1..(MaxIds - 2) |-> PanelStore[k]]

InitDouble ==
    /\ InitCommon
    /\ env = EnvFull
    /\ store = DoubleStore
    /\ nextId = MaxIds - 2

NextDouble ==
    \/ PageLoad({LinkSearch(<<"a", " ", "b">>)})
    \/ PageTimer("c1")
    \/ TypeSolution({Empty, <<"s">>})
    \/ ClickSave("c1")
    \/ ClickSave("c2")
    \/ StoreReplies("c1")
    \/ StoreReplies("c2")
    \/ PageResume("c1")
    \/ PageResume("c2")

SpecDouble == InitDouble /\ [][NextDouble]_vars

\* a create the worker has answered with success and the page has not taken up
Posted(c) ==
    /\ page.pend[c].await = "post"
    /\ conn[c].phase = "done"
    /\ conn[c].req.method = "POST"
    /\ conn[c].resp.status = 200 /\ conn[c].resp.ok

\* two records alike in everything the form sends
SameEntry(d, e) ==
    [d EXCEPT !._id = Empty, !.createdAt = 0, !.updatedAt = 0]
        = [e EXCEPT !._id = Empty, !.createdAt = 0, !.updatedAt = 0]

\* C25: a click on Save with a valid form sends a POST of the form's values
\* on a connection of its own, whatever else is in flight, and leaves the
\* requests in flight as they are; when two saves of the same form values
\* have both succeeded, the store holds two records of that entry.
C25_NoGuard ==
    /\ [][(page' # page /\ page'.event = "saveBtn" /\ SaveInvalid(page) = NoErr)
            => LET c == page'.evc
               IN  /\ page'.pend[c].await = "post"
                   /\ conn'[c].phase = "upstream"
                   /\ conn'[c].req.method = "POST"
                   /\ conn'[c].req.body = Payload(page)
                   /\ \A d \in Conns \ {c} :
                        conn'[d] = conn[d] /\ page'.pend[d] = page.pend[d]]_vars
    /\ []((Posted("c1") /\ Posted("c2")
            /\ conn["c1"].req.body = conn["c2"].req.body)
            => \E i, j \in DOMAIN store :
                /\ i # j
                /\ store[i]._id # store[j]._id
                /\ SameEntry(store[i], store[j])
                /\ store[i].solution = <<"s">>
                /\ store[i].customerName = Str(<<"a", " ", "b">>))

\* C25 witness: both saves of the one form entry have succeeded and the store
\* holds the two records
C25_Witness ==
    /\ Posted("c1") /\ Posted("c2")
    /\ conn["c1"].req.body = conn["c2"].req.body
    /\ Len(store) = Len(DoubleStore) + 2
    /\ SameEntry(store[Len(store)], store[Len(store) - 1])

====
